---- MODULE Spec2Model ----
(***************************************************************************)
(* Library synchronisation of YAM (app/electron/main/main-renderer.js):    *)
(* the watched-thread sync, the feed of updated threads and the flows that *)
(* add a game to the library.  Strings are tuples of one-character         *)
(* strings, so that the regular expressions and the case conversions of    *)
(* the source are computed and not assumed.                                *)
(***************************************************************************)
EXTENDS Integers, Sequences, FiniteSets, TLC

\* Longest watch-list handed to one run of syncDatabaseWatchedThreads.
MaxBatch == 2

\* Most directories the user selects in one dialog.
MaxSelect == 2

\* Most records of the game database before the user stops adding games.
MaxGames == 2

(***************************************************************************)
(* Characters and strings                                                  *)
(***************************************************************************)
Digits == <<"0", "1", "2", "3", "4", "5", "6", "7", "8", "9">>

IsDigit(c) == \E i \in 1..Len(Digits) : Digits[i] = c

DigitVal(c) == (CHOOSE i \in 1..Len(Digits) : Digits[i] = c) - 1

\* parseInt of a string of decimal digits.
RECURSIVE ParseInt(_)
ParseInt(s) ==
    IF Len(s) = 0 THEN 0
    ELSE 10 * ParseInt(SubSeq(s, 1, Len(s) - 1)) + DigitVal(s[Len(s)])

\* The index of the last digit of the run of digits that starts at index i.
RECURSIVE DigitRunEnd(_, _)
DigitRunEnd(s, i) ==
    IF i < Len(s) /\ IsDigit(s[i + 1]) THEN DigitRunEnd(s, i + 1) ELSE i

\* The match of a search that goes for the rightmost dot a digit follows.
MatchThreadIdLast(url) ==
    LET starts == {i \in 1..(Len(url) - 1) : url[i] = "." /\ IsDigit(url[i + 1])}
    IN  IF starts = {} THEN <<>>
        ELSE LET s == CHOOSE i \in starts : \A j \in starts : i >= j
             IN  SubSeq(url, s, DigitRunEnd(url, s + 1))

\* url.match(/\.[0-9]+/): the leftmost dot that a digit follows, with every
\* digit after it; the empty tuple stands for null (no match).
MatchThreadId(url) ==
    LET starts == {i \in 1..(Len(url) - 1) : url[i] = "." /\ IsDigit(url[i + 1])}
    IN  IF starts = {} THEN <<>>
        ELSE LET s == CHOOSE i \in starts : \A j \in starts : i <= j
             IN  SubSeq(url, s, DigitRunEnd(url, s + 1))

\* parseInt(match[0].replace(".", "")): the match starts with its only dot.
ThreadIdOfMatch(match) == ParseInt(Tail(match))

\* The cased letters of the model: LowerLetters[i] is the lower case of
\* UpperLetters[i].
LowerLetters ==
    <<"a", "b", "c", "d", "e", "f", "g", "h", "i", "j", "k", "l", "m", "n",
      "o", "p", "q", "r", "s", "t", "u", "v", "w", "x", "y", "z">>

UpperLetters ==
    <<"A", "B", "C", "D", "E", "F", "G", "H", "I", "J", "K", "L", "M", "N",
      "O", "P", "Q", "R", "S", "T", "U", "V", "W", "X", "Y", "Z">>

\* One character of str.toUpperCase() and of str.toLowerCase().
ToUpperChar(c) ==
    IF \E i \in 1..Len(LowerLetters) : LowerLetters[i] = c
    THEN UpperLetters[CHOOSE i \in 1..Len(LowerLetters) : LowerLetters[i] = c]
    ELSE c

ToLowerChar(c) ==
    IF \E i \in 1..Len(UpperLetters) : UpperLetters[i] = c
    THEN LowerLetters[CHOOSE i \in 1..Len(UpperLetters) : UpperLetters[i] = c]
    ELSE c

\* The letter U+00DF (sharp s), one character; the module is written in
\* ASCII.  It has no upper-case form of one character: toUpperCase() writes
\* "SS" for it; toLowerCase() leaves it.
Eszett == "sz"

RECURSIVE ToUpperCase(_)
ToUpperCase(str) ==
    IF Len(str) = 0 THEN <<>>
    ELSE (IF str[1] = Eszett THEN <<"S", "S">> ELSE <<ToUpperChar(str[1])>>)
         \o ToUpperCase(Tail(str))

ToLowerCase(str) == [i \in 1..Len(str) |-> ToLowerChar(str[i])]

\* The line feed, a line terminator: whitespace for trim(), and no character
\* the dot of a regular expression matches.
LineFeed == "\n"

\* c.trim() === ""
IsWhitespace(c) == c \in {" ", LineFeed}

\* str.trim()
RECURSIVE TrimStart(_)
TrimStart(str) ==
    IF Len(str) > 0 /\ IsWhitespace(str[1]) THEN TrimStart(Tail(str)) ELSE str

RECURSIVE TrimEnd(_)
TrimEnd(str) ==
    IF Len(str) > 0 /\ IsWhitespace(str[Len(str)])
    THEN TrimEnd(SubSeq(str, 1, Len(str) - 1))
    ELSE str

Trim(str) == TrimEnd(TrimStart(str))

\* haystack.indexOf(needle, from), zero-based positions as in JavaScript;
\* -1 when needle does not occur at or after from.
IndexOf(haystack, needle, from) ==
    LET hits == {i \in from..(Len(haystack) - Len(needle)) :
                    SubSeq(haystack, i + 1, i + Len(needle)) = needle}
    IN  IF hits = {} THEN 0 - 1
        ELSE CHOOSE i \in hits : \A j \in hits : i <= j

\* str.substr(start, length): empty when length is not positive.
Substr(str, start, length) ==
    IF length <= 0 THEN <<>>
    ELSE SubSeq(str, start + 1, IF start + length > Len(str) THEN Len(str) ELSE start + length)

\* The keep test of a filter that keeps what has no case.
KeepCharUncased(str, allowedChars, i) ==
    LET lower == ToLowerCase(str)
        upper == ToUpperCase(str)
    IN  \/ lower[i] = upper[i]
        \/ lower[i] \in allowedChars

\* The keep test of removeSpecials for position i.
KeepChar(str, allowedChars, i) ==
    LET lower == ToLowerCase(str)
        upper == ToUpperCase(str)
    IN  \/ lower[i] # upper[i]
        \/ IsWhitespace(lower[i])
        \/ lower[i] \in allowedChars

\* removeSpecials(str, allowedChars)
RemoveSpecials(str, allowedChars) ==
    LET kept == SelectSeq([i \in 1..Len(str) |-> <<str[i], KeepChar(str, allowedChars, i)>>],
                          LAMBDA p : p[2])
    IN  Trim([i \in 1..Len(kept) |-> kept[i][1]])

\* The characters cleanGameName lets removeSpecials keep.
VersionChars == {"-", "[", "]", "."} \cup {Digits[i] : i \in 1..Len(Digits)}

\* rxSpecials = /[/\\?%*:|"<>]/g
ReservedChars == {"/", "\\", "?", "%", "*", ":", "|", "\"", "<", ">"}

\* Whether /\[(.*?)\]/ matches str from position open to position close:
\* a "[", as few characters as possible that are no line terminators, a "]".
IsTagMatch(str, open, close) ==
    /\ open < close
    /\ str[open] = "["
    /\ str[close] = "]"
    /\ \A k \in (open + 1)..(close - 1) : str[k] \notin {"]", LineFeed}

\* name.replace(/\[(.*?)\]/g, ""): the leftmost match is dropped, then the
\* leftmost match of what follows it, and so on.
RECURSIVE RemoveTags(_)
RemoveTags(str) ==
    LET opens == {i \in 1..Len(str) : \E j \in 1..Len(str) : IsTagMatch(str, i, j)}
    IN  IF opens = {} THEN str
        ELSE LET open == CHOOSE i \in opens : \A k \in opens : i <= k
                 close == CHOOSE j \in 1..Len(str) : IsTagMatch(str, open, j)
             IN  SubSeq(str, 1, open - 1) \o RemoveTags(SubSeq(str, close + 1, Len(str)))

\* str.replace(rxSpecials, by), by the empty string or one character
ReplaceReserved(str, by) ==
    IF Len(str) = 0 THEN <<>>
    ELSE LET pieces == [i \in 1..Len(str) |->
                           IF str[i] \in ReservedChars THEN by ELSE <<str[i]>>]
             Flat[i \in 0..Len(str)] ==
                 IF i = 0 THEN <<>> ELSE Flat[i - 1] \o pieces[i]
         IN  Flat[Len(str)]

\* cleanGameName(name)
CleanGameName(name) ==
    Trim(ReplaceReserved(RemoveTags(RemoveSpecials(name, VersionChars)), <<>>))

Unknown == <<"U", "n", "k", "n", "o", "w", "n">>
PrefixVersion == <<"[", "V", ".">>

\* getGameVersionFromName(name)
GetGameVersionFromName(name) ==
    IF IndexOf(ToUpperCase(name), PrefixVersion, 0) >= 0
    THEN LET startIndex == IndexOf(ToUpperCase(name), PrefixVersion, 0) + Len(PrefixVersion)
             endIndex == IndexOf(name, <<"]">>, startIndex)
         IN  Substr(name, startIndex, endIndex - startIndex)
    ELSE Unknown

\* The characters of the model in the order of their UTF-16 code units.
CodeOrder ==
    <<" ", "!", "\"", "%", "*", "-", ".", "/", "0", "1", "2", "3", "4",
      "5", "6", "7", "8", "9", ":", "<", ">", "?", "A", "B", "C", "D", "E",
      "F", "G", "H", "I", "J", "K", "L", "M", "N", "O", "P", "Q", "R", "S",
      "T", "U", "V", "W", "X", "Y", "Z", "[", "\\", "]", "a", "b", "c",
      "d", "e", "f", "g", "h", "i", "j", "k", "l", "m", "n", "o", "p", "q",
      "r", "s", "t", "u", "v", "w", "x", "y", "z", "|">>

CharCode(c) == CHOOSE i \in 1..Len(CodeOrder) : CodeOrder[i] = c

\* s < t for two strings, as JavaScript compares them.
RECURSIVE StrLess(_, _)
StrLess(s, t) ==
    IF Len(t) = 0 THEN FALSE
    ELSE IF Len(s) = 0 THEN TRUE
    ELSE IF s[1] = t[1] THEN StrLess(Tail(s), Tail(t))
    ELSE CharCode(s[1]) < CharCode(t[1])

(***************************************************************************)
(* The remote catalog (F95API) and the converters                          *)
(***************************************************************************)
UrlA1 == <<"a", ".", "1">>
UrlB1 == <<"b", ".", "1">>
UrlA2 == <<"a", ".", "2">>
UrlNoId == <<"a">>

\* The URLs a watch-list may hold: two URLs of thread 1 (the thread was
\* renamed by an update), one of thread 2 and one without a thread id.
WatchUrls == {UrlA1, UrlB1, UrlA2, UrlNoId}

\* The URLs the catalog knows.
CatalogUrls == {UrlA1, UrlB1, UrlA2}

NameG == <<"G">>
NameH == <<"H">>

\* Tags of the catalog.
TagT1 == <<"t", "1">>
TagT2 == <<"t", "2">>

\* F95.getGameDataFromURL(url) when it answers.
GetGameDataFromURL(url) ==
    IF url = UrlA1 THEN [id |-> 1, url |-> url, name |-> NameG, tags |-> <<TagT1>>]
    ELSE IF url = UrlB1 THEN [id |-> 1, url |-> url, name |-> NameG, tags |-> <<TagT1, TagT2>>]
    ELSE [id |-> 2, url |-> url, name |-> NameH, tags |-> <<TagT2>>]

\* The titles of the catalog: thread 1 is "G"; threads 2 and 3 are two games
\* that are both named "H".
Titles ==
    <<GetGameDataFromURL(UrlA1), GetGameDataFromURL(UrlA2),
      [id |-> 3, url |-> <<"a", ".", "3">>, name |-> NameH, tags |-> <<TagT1>>]>>

\* F95.getGameData(name, includeMods) when it answers: the titles of that
\* name, whatever the letter case; no title of the catalog is a mod.
GetGameData(name, includeMods) ==
    SelectSeq(Titles, LAMBDA t : ToUpperCase(t.name) = ToUpperCase(name))

\* GIE.convert(gameInfo): the game record of a title, not yet installed.
GameInfoExtendedConvert(info) ==
    [id |-> info.id, name |-> info.name, tags |-> info.tags,
     version |-> Unknown, gameDirectory |-> <<>>]

\* window.API.getDirName(path): what follows the last separator.
RECURSIVE GetDirName(_)
GetDirName(path) ==
    IF IndexOf(path, <<"/">>, 0) < 0 THEN path
    ELSE GetDirName(SubSeq(path, IndexOf(path, <<"/">>, 0) + 2, Len(path)))

\* The directories the user may select: two of the game "G" (one of them
\* with a version tag), one of a game "H" and one the catalog does not know.
DirG == <<"d", "/", "G">>
DirGv == <<"d", "/", "g", " ", "[", "v", ".", "1", "]">>
DirH == <<"d", "/", "H", ":">>
DirV == <<"d", "/", "V">>
Directories == {DirG, DirGv, DirH, DirV}

\* TI.convert(gameInfo): the thread record of a title, flags at their default.
ThreadInfoConvert(gameInfo) ==
    [id |-> gameInfo.id, url |-> gameInfo.url, name |-> gameInfo.name,
     tags |-> gameInfo.tags, updateAvailable |-> FALSE, markedAsRead |-> FALSE]

(***************************************************************************)
(* The stores (ThreadDB, GameDB): records in insertion order               *)
(***************************************************************************)
\* db.search({id: id})
DbSearchById(db, id) == SelectSeq(db, LAMBDA r : r.id = id)

\* db.insert(record)
DbInsert(db, record) == Append(db, record)

\* db.write(record): full replacement of the record with that id, inserted
\* when there is none.
DbWrite(db, record) ==
    IF \E i \in 1..Len(db) : db[i].id = record.id
    THEN [i \in 1..Len(db) |-> IF db[i].id = record.id THEN record ELSE db[i]]
    ELSE Append(db, record)

\* The place of record r in a sequence sorted by name: after every record
\* whose name is not greater.
RECURSIVE InsertByName(_, _)
InsertByName(sorted, r) ==
    IF Len(sorted) = 0 THEN <<r>>
    ELSE IF StrLess(r.name, sorted[1].name) THEN <<r>> \o sorted
    ELSE <<sorted[1]>> \o InsertByName(Tail(sorted), r)

\* The sort {name: 1} of db.search.
RECURSIVE SortByName(_)
SortByName(db) ==
    IF Len(db) = 0 THEN <<>>
    ELSE InsertByName(SortByName(SubSeq(db, 1, Len(db) - 1)), db[Len(db)])

\* ThreadDB.search({updateAvailable: true, markedAsRead: false}, {name: 1})
DbSearchPending(db) ==
    SortByName(SelectSeq(db, LAMBDA r : r.updateAvailable /\ ~r.markedAsRead))

DbIds(db) == {db[i].id : i \in 1..Len(db)}

(***************************************************************************)
(* mostFrequent: the count dictionary is a JavaScript object               *)
(***************************************************************************)
\* A key that an object holds as an integer index: the canonical decimal
\* form of a number ("0", "2", "10"; not "02").  The values of the model are
\* far below the largest index, 2^32 - 2.
IsArrayIndex(key) ==
    /\ Len(key) > 0
    /\ \A i \in 1..Len(key) : IsDigit(key[i])
    /\ (Len(key) = 1 \/ key[1] # "0")

\* The name of the accessor that every object inherits from Object.prototype
\* and whose setter ignores a value that is no object.  Of the names that {}
\* inherits it is the one the model holds.
ProtoKey == <<"_", "_", "p", "r", "o", "t", "o", "_", "_">>

\* for (const e of arr) { if (e in countDict) countDict[e] += 1;
\*                        else countDict[e] = 1; }
\* The dictionary as its own properties in the order of their creation.
\* "__proto__" in countDict is true from the start, and the assignment
\* countDict["__proto__"] += 1 hands a string to the setter, which creates
\* no property.
RECURSIVE CountDict(_)
CountDict(arr) ==
    IF Len(arr) = 0 THEN <<>>
    ELSE LET countDict == CountDict(SubSeq(arr, 1, Len(arr) - 1))
             e == arr[Len(arr)]
         IN  IF \E i \in 1..Len(countDict) : countDict[i].key = e
             THEN [i \in 1..Len(countDict) |->
                      IF countDict[i].key = e
                      THEN [key |-> e, count |-> countDict[i].count + 1]
                      ELSE countDict[i]]
             ELSE IF e = ProtoKey THEN countDict
             ELSE Append(countDict, [key |-> e, count |-> 1])

\* The integer-index properties in ascending numeric order.
RECURSIVE IndexKeysAscending(_)
IndexKeysAscending(props) ==
    IF Len(props) = 0 THEN <<>>
    ELSE LET low == CHOOSE i \in 1..Len(props) :
                       \A j \in 1..Len(props) :
                          ParseInt(props[i].key) <= ParseInt(props[j].key)
         IN  <<props[low]>> \o
             IndexKeysAscending(SubSeq(props, 1, low - 1) \o
                                SubSeq(props, low + 1, Len(props)))

\* Object.keys(countDict).map(key => [key, countDict[key]]): the integer
\* indices first, in ascending numeric order, then the other keys in the
\* order of their creation.
ObjectItems(countDict) ==
    IndexKeysAscending(SelectSeq(countDict, LAMBDA q : IsArrayIndex(q.key)))
    \o SelectSeq(countDict, LAMBDA q : ~IsArrayIndex(q.key))

\* One step of the stable sort with (first, second) => second[1] - first[1]:
\* item goes behind every item whose count is not smaller.
RECURSIVE InsertByCount(_, _)
InsertByCount(sorted, item) ==
    IF Len(sorted) = 0 THEN <<item>>
    ELSE IF sorted[1].count < item.count THEN <<item>> \o sorted
    ELSE <<sorted[1]>> \o InsertByCount(Tail(sorted), item)

\* items.sort(...): Array.prototype.sort is stable (V8 of Electron 11).
RECURSIVE SortByCount(_)
SortByCount(items) ==
    IF Len(items) = 0 THEN <<>>
    ELSE InsertByCount(SortByCount(SubSeq(items, 1, Len(items) - 1)),
                       items[Len(items)])

MathMin(a, b) == IF a < b THEN a ELSE b

\* items.slice(0, end), end >= 0: an end behind the last item is the length.
Slice(items, end) == SubSeq(items, 1, IF end < Len(items) THEN end ELSE Len(items))

\* mostFrequent(arr, n), n >= 0.
MostFrequent(arr, n) ==
    LET items == SortByCount(ObjectItems(CountDict(arr)))
        min == MathMin(n, Len(items))
        returnElements == Slice(items, min)
    IN  [i \in 1..Len(returnElements) |-> returnElements[i].key]

(***************************************************************************)
(* State                                                                   *)
(***************************************************************************)
VARIABLES
    threadDB,    \* ThreadStore
    gameDB,      \* LibraryStore
    pc,          \* where the run of updatedThreads stands
    urlList,     \* syncDatabaseWatchedThreads: its argument
    idx,         \* ... the position of the for-of loop in urlList
    thread,      \* ... the result of ThreadDB.search for the current url
    gameInfo,    \* ... the answer of the catalog, <<>> before it
    feed,        \* updatedThreads: the result of getUpdatedThreads
    store0,      \* history: ThreadStore when the run started
    syncLog,     \* history: what the run did, in order
    addPc,       \* where the handler that adds games stands
    gameFolderPaths,  \* ... the selected directories left to process
    urlInput,    \* onAddRemoteGame: the URL the user gave
    addLog,      \* history: what getGameFromPaths did with each path, in order
    recPc,       \* where the run of recommendGames stands
    tags,        \* recommendGames: the working tags
    validGames,  \* ... the games collected so far
    installedGameIDs,  \* ... the ids of the installed games
    lastTags,    \* history: the tags of the latest query of the catalog
    iterations,  \* history: the passes through the do-while loop
    lastAnswer,  \* history: what the latest answer of the catalog was like
    callPc,      \* where the call of a function on its own stands
    callArgs,    \* ... its arguments
    callReturned, \* ... what it returned
    otherRun,    \* the run of updatedThreads a later login starts
    box,         \* the window of the messagebox
    card         \* where gameCardDelete stands, and what it did

syncVars == <<pc, urlList, idx, thread, gameInfo, feed, store0, syncLog>>
addVars == <<addPc, gameFolderPaths, urlInput, addLog>>
recVars == <<recPc, tags, validGames, installedGameIDs, lastTags, iterations,
            lastAnswer>>
callVars == <<callPc, callArgs, callReturned>>
sessionVars == <<otherRun, box, card>>
vars == <<threadDB, gameDB, syncVars, addVars, recVars, callVars, sessionVars>>

RECURSIVE SeqsUpTo(_, _)
SeqsUpTo(S, n) ==
    IF n = 0 THEN {<<>>}
    ELSE LET shorter == SeqsUpTo(S, n - 1)
         IN  shorter \cup {Append(s, x) : s \in shorter, x \in S}

Logged(op, url) == Append(syncLog, [op |-> op, url |-> url])

\* No second run of updatedThreads.
NoRun == [pc |-> "idle", urlList |-> <<>>, idx |-> 0, thread |-> <<>>]

\* No second run of updatedThreads, no messagebox, no card being deleted.
SessionIdle ==
    /\ otherRun = NoRun
    /\ box = <<>>
    /\ card = <<>>

\* No handler of the main window is running; what the handlers keep between
\* their steps is empty.
MainIdle ==
    /\ pc = "idle"
    /\ urlList = <<>>
    /\ idx = 0
    /\ thread = <<>>
    /\ gameInfo = <<>>
    /\ feed = <<>>
    /\ store0 = <<>>
    /\ syncLog = <<>>
    /\ addPc = "idle"
    /\ gameFolderPaths = <<>>
    /\ urlInput = <<>>
    /\ addLog = <<>>

\* No handler is running.
HandlersIdle ==
    /\ MainIdle
    /\ SessionIdle

\* The constants of recommendGames.
MAX_TAGS == 5
MAX_GAMES == 10
MAX_FETCHED_GAMES == 15

\* No answer of the catalog yet.
NoAnswer == [manyNovel |-> FALSE, repeated |-> FALSE]

\* Whether more than MAX_GAMES titles of the answer are neither installed
\* nor collected, and whether the answer holds a title collected before.
AnswerSeen(games, valid, installed) ==
    [manyNovel |->
        Cardinality({i \in 1..Len(games) :
                        /\ \A k \in 1..Len(installed) : installed[k] # games[i].id
                        /\ \A k \in 1..Len(valid) : valid[k].id # games[i].id})
           > MAX_GAMES,
     repeated |->
        \E i \in 1..Len(games) : \E k \in 1..Len(valid) : valid[k].id = games[i].id]

\* recommendGames is not running.
RecommendIdle ==
    /\ recPc = "idle"
    /\ tags = <<>>
    /\ validGames = <<>>
    /\ installedGameIDs = <<>>
    /\ lastTags = <<>>
    /\ iterations = 0
    /\ lastAnswer = NoAnswer

\* No function is called on its own.
CallIdle ==
    /\ callPc = "idle"
    /\ callArgs = <<>>
    /\ callReturned = <<>>

Init ==
    /\ threadDB = <<>>
    /\ gameDB = <<>>
    /\ HandlersIdle
    /\ RecommendIdle
    /\ CallIdle

(***************************************************************************)
(* syncDatabaseWatchedThreads, one action per await                        *)
(***************************************************************************)
\* getUserDataFromF95 hands the watch-list to updatedThreads, which starts
\* the sync.  The sync works on ThreadDB and the handlers that add games on
\* GameDB; they are run one at a time, so that every pair of stores they
\* can produce is reached without interleaving their steps.
UpdatedThreads ==
    /\ pc = "idle"
    /\ addPc = "idle"
    /\ \E watchedThreads \in SeqsUpTo(WatchUrls, MaxBatch) :
          urlList' = watchedThreads
    /\ idx' = 1
    /\ pc' = "loop"
    /\ store0' = threadDB
    /\ syncLog' = <<>>
    /\ UNCHANGED <<threadDB, gameDB, thread, gameInfo, feed, addVars, recVars, callVars, sessionVars>>

\* "break" in the place of "continue": the loop is left at the first url
\* without an id.
SyncSkipBreaks ==
    /\ pc = "loop"
    /\ idx <= Len(urlList)
    /\ MatchThreadId(urlList[idx]) = <<>>
    /\ syncLog' = Logged("warn", urlList[idx])
    /\ idx' = Len(urlList) + 1
    /\ UNCHANGED <<threadDB, gameDB, pc, urlList, thread, gameInfo, feed, store0,
                   addVars, recVars, callVars, sessionVars>>

\* if (!match) { log.warn(...); continue; }
SyncSkip ==
    /\ pc = "loop"
    /\ idx <= Len(urlList)
    /\ MatchThreadId(urlList[idx]) = <<>>
    /\ syncLog' = Logged("warn", urlList[idx])
    /\ idx' = idx + 1
    /\ UNCHANGED <<threadDB, gameDB, pc, urlList, thread, gameInfo, feed, store0,
                   addVars, recVars, callVars, sessionVars>>

\* const thread = await ThreadDB.search({id: id})
SyncSearch ==
    /\ pc = "loop"
    /\ idx <= Len(urlList)
    /\ MatchThreadId(urlList[idx]) # <<>>
    /\ thread' = DbSearchById(threadDB, ThreadIdOfMatch(MatchThreadId(urlList[idx])))
    /\ syncLog' = Logged("search", urlList[idx])
    /\ pc' = "searched"
    /\ UNCHANGED <<threadDB, gameDB, urlList, idx, gameInfo, feed, store0, addVars,
                   recVars, callVars, sessionVars>>

\* The result of the search is not looked at.
ThreadAbsentAlways(found) == TRUE

\* thread.length === 0
ThreadAbsent(found) == Len(found) = 0

\* The comparison of the urls the wrong way round.
UrlUnchangedInverted(found, url) == found[1].url # url

\* The stored url is never taken for the incoming one.
UrlUnchangedNever(found, url) == FALSE

\* thread[0].url === url
UrlUnchanged(found, url) == found[1].url = url

\* The "continue" of the unchanged url is missing.
MustFetchAlways(found, url) == TRUE

\* The branches that reach F95.getGameDataFromURL: the thread is not stored,
\* or it is stored under another url.
MustFetch(found, url) == IF ThreadAbsent(found) THEN TRUE ELSE ~UrlUnchanged(found, url)

\* if (thread[0].url === url) continue;
SyncUnchanged ==
    /\ pc = "searched"
    /\ ~ThreadAbsent(thread)
    /\ UrlUnchanged(thread, urlList[idx])
    /\ idx' = idx + 1
    /\ thread' = <<>>
    /\ pc' = "loop"
    /\ UNCHANGED <<threadDB, gameDB, urlList, gameInfo, feed, store0, syncLog, addVars,
                   recVars, callVars, sessionVars>>

\* const gameInfo = await F95.getGameDataFromURL(url), when it answers
SyncFetch ==
    /\ pc = "searched"
    /\ MustFetch(thread, urlList[idx])
    /\ gameInfo' = <<GetGameDataFromURL(urlList[idx])>>
    /\ syncLog' = Logged("fetch", urlList[idx])
    /\ pc' = "fetched"
    /\ UNCHANGED <<threadDB, gameDB, urlList, idx, thread, feed, store0, addVars, recVars, callVars, sessionVars>>

\* ... and when it throws: nothing in syncDatabaseWatchedThreads catches, the
\* for-of loop is left and the promise of the run is rejected.
SyncFetchThrows ==
    /\ pc = "searched"
    /\ MustFetch(thread, urlList[idx])
    /\ syncLog' = Logged("throw", urlList[idx])
    /\ thread' = <<>>
    /\ pc' = "rejected"
    /\ UNCHANGED <<threadDB, gameDB, urlList, idx, gameInfo, feed, store0, addVars,
                   recVars, callVars, sessionVars>>

\* threadInfo.markedAsRead = true in the place of false.
FlagUpdateRead(threadInfo) ==
    [threadInfo EXCEPT !.updateAvailable = TRUE, !.markedAsRead = TRUE]

\* threadInfo.updateAvailable = true; threadInfo.markedAsRead = false
FlagUpdate(threadInfo) ==
    [threadInfo EXCEPT !.updateAvailable = TRUE, !.markedAsRead = FALSE]

\* An unwatched-so-far thread flagged as updated when it is stored.
InsertedThreadFlagged(info) == FlagUpdate(ThreadInfoConvert(info))

\* const threadInfo = TI.convert(gameInfo), in the branch that inserts
InsertedThread(info) == ThreadInfoConvert(info)

\* A changed thread stored without the two assignments.
WrittenThreadUnflagged(info) == ThreadInfoConvert(info)

\* const threadInfo = TI.convert(gameInfo); threadInfo.updateAvailable = true;
\* threadInfo.markedAsRead = false, in the branch that writes
WrittenThread(info) == FlagUpdate(ThreadInfoConvert(info))

\* await ThreadDB.insert(TI.convert(gameInfo))
SyncInsert ==
    /\ pc = "fetched"
    /\ ThreadAbsent(thread)
    /\ threadDB' = DbInsert(threadDB, InsertedThread(gameInfo[1]))
    /\ syncLog' = Logged("insert", urlList[idx])
    /\ idx' = idx + 1
    /\ thread' = <<>>
    /\ gameInfo' = <<>>
    /\ pc' = "loop"
    /\ UNCHANGED <<gameDB, urlList, feed, store0, addVars, recVars, callVars, sessionVars>>

\* await ThreadDB.write(threadInfo), the flags set
SyncWrite ==
    /\ pc = "fetched"
    /\ ~ThreadAbsent(thread)
    /\ threadDB' = DbWrite(threadDB, WrittenThread(gameInfo[1]))
    /\ syncLog' = Logged("write", urlList[idx])
    /\ idx' = idx + 1
    /\ thread' = <<>>
    /\ gameInfo' = <<>>
    /\ pc' = "loop"
    /\ UNCHANGED <<gameDB, urlList, feed, store0, addVars, recVars, callVars, sessionVars>>

\* The for-of loop is over: syncDatabaseWatchedThreads returns.
SyncReturn ==
    /\ pc = "loop"
    /\ idx > Len(urlList)
    /\ pc' = "synced"
    /\ UNCHANGED <<threadDB, gameDB, urlList, idx, thread, gameInfo, feed, store0,
                   syncLog, addVars, recVars, callVars, sessionVars>>

\* The unhandled rejection of the run is logged by window.onunhandledrejection;
\* updatedThreads never reaches getUpdatedThreads.
OnUnhandledRejection ==
    /\ pc = "rejected"
    /\ pc' = "idle"
    /\ urlList' = <<>>
    /\ idx' = 0
    /\ store0' = <<>>
    /\ syncLog' = <<>>
    /\ UNCHANGED <<threadDB, gameDB, thread, gameInfo, feed, addVars, recVars, callVars, sessionVars>>

(***************************************************************************)
(* getUpdatedThreads and the threads tab                                   *)
(***************************************************************************)
\* The search of GameDB is not looked at.
NotInstalledAlways(games, t) == TRUE

\* if (searchResult.length === 0) result.push(thread)
NotInstalled(games, t) == Len(DbSearchById(games, t.id)) = 0

\* result.unshift(thread) in the place of result.push(thread).
GetUpdatedThreadsResultUnshift(threads, games) ==
    LET kept == SelectSeq(DbSearchPending(threads), LAMBDA t : NotInstalled(games, t))
    IN  [i \in 1..Len(kept) |-> kept[Len(kept) + 1 - i]]

\* getUpdatedThreads(): the pending threads, by name, without the threads of
\* installed games.
GetUpdatedThreadsResult(threads, games) ==
    SelectSeq(DbSearchPending(threads), LAMBDA t : NotInstalled(games, t))

\* const updatedThreads = await getUpdatedThreads()
GetUpdatedThreads ==
    /\ pc = "synced"
    /\ feed' = GetUpdatedThreadsResult(threadDB, gameDB)
    /\ pc' = "feed"
    /\ UNCHANGED <<threadDB, gameDB, urlList, idx, thread, gameInfo, store0, syncLog,
                   addVars, recVars, callVars, sessionVars>>

\* requestAnimationFrame(() => prepareThreadUpdatesTab(updatedThreads)): the
\* threads are handed to the tab and updatedThreads is over.
PrepareThreadUpdatesTab ==
    /\ pc = "feed"
    /\ pc' = "idle"
    /\ feed' = <<>>
    /\ urlList' = <<>>
    /\ idx' = 0
    /\ store0' = <<>>
    /\ syncLog' = <<>>
    /\ UNCHANGED <<threadDB, gameDB, thread, gameInfo, addVars, recVars, callVars, sessionVars>>

\* The thread visualizer of the tab: the user marks an updated thread as read.
MarkAsRead ==
    /\ \E i \in 1..Len(threadDB) :
          /\ threadDB[i].updateAvailable
          /\ ~threadDB[i].markedAsRead
          /\ threadDB' = DbWrite(threadDB, [threadDB[i] EXCEPT !.markedAsRead = TRUE])
    /\ UNCHANGED <<gameDB, pc, urlList, idx, thread, gameInfo, feed, store0, syncLog,
                   addVars, recVars, callVars, sessionVars>>

(***************************************************************************)
(* Adding games: onAddLocalGame, onAddRemoteGame                           *)
(***************************************************************************)
\* cleanGameName(name).replace(rxSpecials, " ").trim(), upper-cased: the
\* name by which getUnlistedGamesInArrayOfPath compares.
ListedName(name) ==
    ToUpperCase(Trim(ReplaceReserved(CleanGameName(name), <<" ">>)))

\* A test that compares the names as they are.
IsListedExact(games, path) ==
    \E i \in 1..Len(games) : games[i].name = GetDirName(path)

\* listedGameNames.includes(newGameName.toUpperCase())
IsListed(games, path) ==
    \E i \in 1..Len(games) : ListedName(games[i].name) = ListedName(GetDirName(path))

\* getUnlistedGamesInArrayOfPath(paths): the paths of no listed game
GetUnlistedGamesInArrayOfPath(paths, games) ==
    SelectSeq(paths, LAMBDA path : ~IsListed(games, path))

\* ... and the names it reports as already present
AlreadyPresentGames(paths, games) ==
    LET present == SelectSeq(paths, LAMBDA path : IsListed(games, path))
    IN  [i \in 1..Len(present) |->
            Trim(ReplaceReserved(CleanGameName(GetDirName(present[i])), <<" ">>))]

\* Up to this many games already present are reported one by one.
MAX_NUMBER_OF_PRESENT_GAMES_FOR_MESSAGES == 5

\* A warning for every game already present, however many they are.
ToastsEach(present) ==
    [i \in 1..Len(present) |->
        [type |-> "warning", key |-> "MR game already listed", gamename |-> present[i]]]

\* The toasts getUnlistedGamesInArrayOfPath sends: a warning for each game
\* already present when they are few, one warning with their number otherwise.
Toasts(present) ==
    IF Len(present) <= MAX_NUMBER_OF_PRESENT_GAMES_FOR_MESSAGES
    THEN [i \in 1..Len(present) |->
            [type |-> "warning", key |-> "MR game already listed",
             gamename |-> present[i]]]
    ELSE <<[type |-> "warning", key |-> "MR multiple duplicate games",
            number |-> Len(present)]>>

\* The sequences of pairwise different elements of S, at most n long.
DistinctSeqs(S, n) ==
    {s \in SeqsUpTo(S, n) : \A i, j \in 1..Len(s) : s[i] = s[j] => i = j}

\* unparsedName.toUpperCase().includes("[MOD]")
IncludeMods(unparsedName) ==
    IndexOf(ToUpperCase(unparsedName), <<"[", "M", "O", "D", "]">>, 0) >= 0

\* The answer of the catalog to the search getGameFromPath makes for path.
Gamelist(path) ==
    GetGameData(CleanGameName(GetDirName(path)), IncludeMods(GetDirName(path)))

\* converted.version = getGameVersionFromName(unparsedName);
\* converted.gameDirectory = path
ConvertedGame(selectedGame, path) ==
    [GameInfoExtendedConvert(selectedGame) EXCEPT
        !.version = GetGameVersionFromName(GetDirName(path)),
        !.gameDirectory = path]

\* What getGameFromPaths and getGameFromPath let the user know of an outcome.
Notice(op) ==
    CASE op \in {"search threw", "insert threw"} -> "error messagebox"
      [] op = "none found" -> "warning toast"
      [] op = "not selected" -> "nothing"
      [] op = "added" -> "info toast"

\* The outcome op of getGameFromPath for the first path left; id is the
\* game the user selected, 0 when there is none.
Outcome(op, id) ==
    Append(addLog, [op |-> op, path |-> gameFolderPaths[1], id |-> id, notice |-> Notice(op)])

\* A test that lets every list of results pass.
NoGameFoundNever(gamelist) == FALSE

\* if (gamelist.length === 0)
NoGameFound(gamelist) == Len(gamelist) = 0

\* The candidate a button stands for, if buttons named the first candidate.
SelectedGameFirst(listOfGames, button) == listOfGames[1]

\* listOfGames.find(x => x.id === parseInt(result.button))
SelectedGame(listOfGames, button) ==
    listOfGames[CHOOSE i \in 1..Len(listOfGames) :
                   /\ listOfGames[i].id = button
                   /\ \A k \in 1..(i - 1) : listOfGames[k].id # button]

\* onAddLocalGame: the user selects directories, selectGameDirectories keeps
\* the unlisted ones and getGameFromPaths starts on them.
OnAddLocalGame ==
    /\ addPc = "idle"
    /\ pc = "idle"
    /\ \E filePaths \in DistinctSeqs(Directories, MaxSelect) :
          /\ Len(filePaths) > 0
          /\ Len(gameDB) + Len(filePaths) <= MaxGames
          /\ Len(GetUnlistedGamesInArrayOfPath(filePaths, gameDB)) # 0
          /\ gameFolderPaths' = GetUnlistedGamesInArrayOfPath(filePaths, gameDB)
    /\ addPc' = "adding"
    /\ UNCHANGED <<threadDB, gameDB, syncVars, urlInput, addLog, recVars, callVars, sessionVars>>

\* A getGameFromPaths without its try and catch: what getGameFromPath throws
\* ends the loop.
GetGameFromPathThrowsAborts ==
    /\ addPc = "adding"
    /\ Len(gameFolderPaths) > 0
    /\ \E op \in {"search threw", "insert threw"} :
          /\ op = "insert threw" => ~NoGameFound(Gamelist(gameFolderPaths[1]))
          /\ addLog' = Outcome(op, 0)
    /\ addPc' = "idle"
    /\ gameFolderPaths' = <<>>
    /\ UNCHANGED <<threadDB, gameDB, syncVars, urlInput, recVars, callVars, sessionVars>>

\* getGameFromPath(path) throws, in the search of the catalog or, a game
\* having been found, in the insert into GameDB; getGameFromPaths catches,
\* reports and goes on.
GetGameFromPathThrows ==
    /\ addPc = "adding"
    /\ Len(gameFolderPaths) > 0
    /\ \E op \in {"search threw", "insert threw"} :
          /\ op = "insert threw" => ~NoGameFound(Gamelist(gameFolderPaths[1]))
          /\ addLog' = Outcome(op, 0)
    /\ gameFolderPaths' = Tail(gameFolderPaths)
    /\ UNCHANGED <<threadDB, gameDB, syncVars, addPc, urlInput, recVars, callVars, sessionVars>>

\* if (gamelist.length === 0) { ... sendToastToUser("warning", ...); return; }
GetGameFromPathNoGame ==
    /\ addPc = "adding"
    /\ Len(gameFolderPaths) > 0
    /\ NoGameFound(Gamelist(gameFolderPaths[1]))
    /\ addLog' = Outcome("none found", 0)
    /\ gameFolderPaths' = Tail(gameFolderPaths)
    /\ UNCHANGED <<threadDB, gameDB, syncVars, addPc, urlInput, recVars, callVars, sessionVars>>

\* requireUserToSelectGameWithSameName: the user closes the dialog
GetGameFromPathNoSelection ==
    /\ addPc = "adding"
    /\ Len(gameFolderPaths) > 0
    /\ Len(Gamelist(gameFolderPaths[1])) > 1
    /\ addLog' = Outcome("not selected", 0)
    /\ gameFolderPaths' = Tail(gameFolderPaths)
    /\ UNCHANGED <<threadDB, gameDB, syncVars, addPc, urlInput, recVars, callVars, sessionVars>>

\* The only game found, or the game whose button the user pressed among
\* several, is converted and inserted: await GameDB.insert(converted)
GetGameFromPathInsert ==
    /\ addPc = "adding"
    /\ Len(gameFolderPaths) > 0
    /\ LET gamelist == Gamelist(gameFolderPaths[1])
       IN  /\ ~NoGameFound(gamelist)
           /\ \E button \in {gamelist[k].id : k \in 1..Len(gamelist)} :
                 LET selectedGame == IF Len(gamelist) > 1
                                     THEN SelectedGame(gamelist, button)
                                     ELSE gamelist[1]
                 IN  /\ gameDB' = DbInsert(gameDB,
                                          ConvertedGame(selectedGame, gameFolderPaths[1]))
                     /\ addLog' = Outcome("added", button)
    /\ gameFolderPaths' = Tail(gameFolderPaths)
    /\ UNCHANGED <<threadDB, syncVars, addPc, urlInput, recVars, callVars, sessionVars>>

\* getGameFromPaths is over; onAddLocalGame reloads the paginator.
GetGameFromPathsReturn ==
    /\ addPc = "adding"
    /\ Len(gameFolderPaths) = 0
    /\ addPc' = "idle"
    /\ addLog' = <<>>
    /\ UNCHANGED <<threadDB, gameDB, syncVars, gameFolderPaths, urlInput, recVars, callVars, sessionVars>>

\* entry.lenght of the array GameDB.search returned: no such property, so
\* undefined, which the model writes as -1.
Lenght(entry) == 0 - 1

\* if (entry.lenght !== 0) { ... already listed ...; return; }
ReportedAsListed(entry) == Lenght(entry) # 0

\* onAddRemoteGame: the user selects one unlisted directory and gives a URL.
OnAddRemoteGame ==
    /\ addPc = "idle"
    /\ pc = "idle"
    /\ Len(gameDB) < MaxGames
    /\ \E path \in Directories :
          /\ Len(GetUnlistedGamesInArrayOfPath(<<path>>, gameDB)) # 0
          /\ gameFolderPaths' = GetUnlistedGamesInArrayOfPath(<<path>>, gameDB)
    /\ \E url \in CatalogUrls : urlInput' = url
    /\ addPc' = "remote"
    /\ UNCHANGED <<threadDB, gameDB, syncVars, addLog, recVars, callVars, sessionVars>>

\* ... the catalog throws for the URL: nothing catches, the handler is over.
OnAddRemoteGameThrows ==
    /\ addPc = "remote"
    /\ addPc' = "idle"
    /\ gameFolderPaths' = <<>>
    /\ urlInput' = <<>>
    /\ UNCHANGED <<threadDB, gameDB, syncVars, addLog, recVars, callVars, sessionVars>>

\* const info = await F95.getGameDataFromURL(url), when it answers
OnAddRemoteGameFetch ==
    /\ addPc = "remote"
    /\ addPc' = "fetched"
    /\ UNCHANGED <<threadDB, gameDB, syncVars, gameFolderPaths, urlInput, addLog,
                   recVars, callVars, sessionVars>>

\* ... the title of the URL is searched in GameDB by id; the game is
\* inserted unless it is reported as already listed.
OnAddRemoteGameCheck ==
    /\ addPc = "fetched"
    /\ gameDB' =
          IF ReportedAsListed(DbSearchById(gameDB, GetGameDataFromURL(urlInput).id))
          THEN gameDB
          ELSE DbInsert(gameDB, ConvertedGame(GetGameDataFromURL(urlInput), gameFolderPaths[1]))
    /\ addPc' = "idle"
    /\ gameFolderPaths' = <<>>
    /\ urlInput' = <<>>
    /\ UNCHANGED <<threadDB, syncVars, addLog, recVars, callVars, sessionVars>>

(***************************************************************************)
(* syncDatabaseWatchedThreads as a function of its inputs                  *)
(***************************************************************************)
\* ThreadStore when syncDatabaseWatchedThreads(urls) is over, started on
\* store with a catalog that throws for the urls of failing and answers
\* for the others: the for-of loop, url by url, left at the first throw.
RECURSIVE SyncResult(_, _, _)
SyncResult(store, urls, failing) ==
    IF Len(urls) = 0 THEN store
    ELSE LET url == urls[1]
             match == MatchThreadId(url)
             found == DbSearchById(store, ThreadIdOfMatch(match))
         IN  IF match = <<>> THEN SyncResult(store, Tail(urls), failing)
             ELSE IF ~MustFetch(found, url) THEN SyncResult(store, Tail(urls), failing)
             ELSE IF url \in failing THEN store
             ELSE IF ThreadAbsent(found)
                  THEN SyncResult(DbInsert(store, InsertedThread(GetGameDataFromURL(url))),
                                  Tail(urls), failing)
                  ELSE SyncResult(DbWrite(store, WrittenThread(GetGameDataFromURL(url))),
                                  Tail(urls), failing)

Next ==
    \/ UpdatedThreads
    \/ SyncSkip
    \/ SyncSearch
    \/ SyncUnchanged
    \/ SyncFetch
    \/ SyncFetchThrows
    \/ SyncInsert
    \/ SyncWrite
    \/ SyncReturn
    \/ OnUnhandledRejection
    \/ GetUpdatedThreads
    \/ PrepareThreadUpdatesTab
    \/ MarkAsRead
    \/ OnAddLocalGame
    \/ GetGameFromPathThrows
    \/ GetGameFromPathNoGame
    \/ GetGameFromPathNoSelection
    \/ GetGameFromPathInsert
    \/ GetGameFromPathsReturn
    \/ OnAddRemoteGame
    \/ OnAddRemoteGameThrows
    \/ OnAddRemoteGameFetch
    \/ OnAddRemoteGameCheck

Spec == Init /\ [][Next]_vars

(***************************************************************************)
(* recommendGames, one action per query of the catalog                     *)
(***************************************************************************)
\* Titles of the catalog that getLatestUpdates may return: ids 1..MaxTitles.
MaxTitles == 12

\* Most records of each store when recommendGames, or getUpdatedThreads on
\* its own, starts.
MaxRecords == 2

TagT3 == <<"t", "3">>
TagT4 == <<"t", "4">>
TagT5 == <<"t", "5">>
TagT6 == <<"t", "6">>

\* The tags a record of a store may carry.
RecordTags ==
    {<<TagT6, TagT1>>, <<TagT1, TagT2, TagT3, TagT4, TagT5>>}

RECURSIVE IntToDigits(_)
IntToDigits(k) ==
    IF k < 10 THEN <<Digits[k + 1]>>
    ELSE Append(IntToDigits(k \div 10), Digits[(k % 10) + 1])

\* The title with id k as the catalog describes it, with the tags it has.
TitleInfo(k, itsTags) ==
    [id |-> k, url |-> <<"a", ".">> \o IntToDigits(k), name |-> NameG,
     tags |-> itsTags]

\* What GameDB may hold: the games 1, 2, ... in the order they were added.
RECURSIVE GameStores(_)
GameStores(k) ==
    IF k = 0 THEN {<<>>}
    ELSE LET fewer == GameStores(k - 1)
         IN  fewer \cup
             {Append(db, GameInfoExtendedConvert(TitleInfo(Len(db) + 1, t))) :
                 db \in {d \in fewer : Len(d) = k - 1}, t \in RecordTags}

\* What ThreadDB may hold: the threads 2, 3, ... in the order they were added.
RECURSIVE ThreadStores(_)
ThreadStores(k) ==
    IF k = 0 THEN {<<>>}
    ELSE LET fewer == ThreadStores(k - 1)
         IN  fewer \cup
             {Append(db, ThreadInfoConvert(TitleInfo(Len(db) + 2, t))) :
                 db \in {d \in fewer : Len(d) = k - 1}, t \in RecordTags}

\* for (const r of records) tags = tags.concat(r.tags)
RECURSIVE ConcatTags(_)
ConcatTags(records) ==
    IF Len(records) = 0 THEN <<>>
    ELSE ConcatTags(SubSeq(records, 1, Len(records) - 1))
         \o records[Len(records)].tags

\* getMostFrequentsInstalledTags(n)
GetMostFrequentsInstalledTags(num) == MostFrequent(ConcatTags(gameDB), num)

\* getMostFrequentsThreadTags(n)
GetMostFrequentsThreadTags(num) == MostFrequent(ConcatTags(threadDB), num)

\* mostFrequent(unified, unified.length): the unified tags are not cut.
UnifiedTagsUncut(gameTags, threadTags) ==
    MostFrequent(gameTags \o threadTags, Len(gameTags) + Len(threadTags))

\* const unified = gameTags.concat(threadTags);
\* const tags = mostFrequent(unified, MAX_TAGS);
UnifiedTags(gameTags, threadTags) ==
    MostFrequent(gameTags \o threadTags, MAX_TAGS)

\* The titles lo..hi of the catalog.
TitleRange(lo, hi) ==
    [i \in 1..(hi + 1 - lo) |->
        TitleInfo(lo + i - 1, <<TagT1, TagT2, TagT3, TagT4, TagT5, TagT6>>)]

\* F95.getLatestUpdates(filter, limit) when it answers, at most limit titles:
\* the titles 1..hi for any hi (none for hi = 0), the best by rating, or
\* the last title of the catalog alone.
GetLatestUpdates(limit) ==
    {TitleRange(1, hi) : hi \in {h \in 0..MaxTitles : h <= limit}}
    \cup {TitleRange(MaxTitles, MaxTitles)}

\* The same test without validGames.length < MAX_GAMES.
IsValidGameUnbounded(game, valid, installed) ==
    /\ \A i \in 1..Len(installed) : installed[i] # game.id
    /\ \A i \in 1..Len(valid) : valid[i].id # game.id

\* The same test without !validGames.find(g => g.id === game.id).
IsValidGameRepeated(game, valid, installed) ==
    /\ \A i \in 1..Len(installed) : installed[i] # game.id
    /\ Len(valid) < MAX_GAMES

\* !installedGameIDs.includes(game.id) &&
\* !validGames.find(g => g.id === game.id) && validGames.length < MAX_GAMES
IsValidGame(game, valid, installed) ==
    /\ \A i \in 1..Len(installed) : installed[i] # game.id
    /\ \A i \in 1..Len(valid) : valid[i].id # game.id
    /\ Len(valid) < MAX_GAMES

\* for (const game of games) if (...) validGames.push(game); else continue;
RECURSIVE PushValidGames(_, _, _)
PushValidGames(valid, games, installed) ==
    IF Len(games) = 0 THEN valid
    ELSE PushValidGames(
            IF IsValidGame(games[1], valid, installed)
            THEN Append(valid, games[1]) ELSE valid,
            Tail(games), installed)

\* tags.shift() in the place of tags.pop().
Shift(list) == IF Len(list) = 0 THEN list ELSE Tail(list)

\* tags.pop() left out.
PopNothing(list) == list

\* tags.pop(): the array without its last element; an empty array stays empty.
Pop(list) == IF Len(list) = 0 THEN list ELSE SubSeq(list, 1, Len(list) - 1)

\* The stores when recommendGames is called.
InitRec ==
    /\ gameDB \in GameStores(MaxRecords)
    /\ threadDB \in ThreadStores(MaxRecords)
    /\ HandlersIdle
    /\ RecommendIdle
    /\ CallIdle

\* recommendGames() up to the do-while loop: the working tags and the ids of
\* the installed games.
RecommendGames ==
    /\ recPc = "idle"
    /\ tags' = UnifiedTags(GetMostFrequentsInstalledTags(MAX_TAGS),
                           GetMostFrequentsThreadTags(MAX_TAGS))
    /\ installedGameIDs' = [i \in 1..Len(gameDB) |-> gameDB[i].id]
    /\ validGames' = <<>>
    /\ lastTags' = <<>>
    /\ iterations' = 0
    /\ lastAnswer' = NoAnswer
    /\ recPc' = "loop"
    /\ UNCHANGED <<threadDB, gameDB, syncVars, addVars, callVars, sessionVars>>

\* The loop goes on for as long as a tag is left, however many games are
\* collected.
LoopAgainWhileTags(valid, tagsLeft) == Len(tagsLeft) > 0

\* The loop goes on for as long as games are missing, tags or no tags.
LoopAgainWhileFew(valid, tagsLeft) == Len(valid) < MAX_GAMES

\* while (validGames.length < MAX_GAMES && tags.length > 0)
LoopAgain(valid, tagsLeft) == Len(valid) < MAX_GAMES /\ Len(tagsLeft) > 0

\* One pass through the do-while loop: the catalog answers the query for the
\* tags, the new games are collected, the last tag is dropped and the
\* condition of the loop is tested.  The count of passes stops at
\* MAX_TAGS + 2, which no run reaches.
RecommendLoop ==
    /\ recPc = "loop"
    /\ \E games \in GetLatestUpdates(MAX_FETCHED_GAMES) :
          /\ validGames' = PushValidGames(validGames, games, installedGameIDs)
          /\ lastAnswer' = AnswerSeen(games, validGames, installedGameIDs)
    /\ lastTags' = tags
    /\ tags' = Pop(tags)
    /\ iterations' = IF iterations < MAX_TAGS + 2 THEN iterations + 1 ELSE iterations
    /\ recPc' = IF LoopAgain(validGames', tags') THEN "loop" ELSE "convert"
    /\ UNCHANGED <<threadDB, gameDB, syncVars, addVars, installedGameIDs, callVars, sessionVars>>

\* The catalog throws: nothing in recommendGames catches.
RecommendLoopThrows ==
    /\ recPc = "loop"
    /\ recPc' = "rejected"
    /\ UNCHANGED <<threadDB, gameDB, syncVars, addVars, tags, validGames,
                   installedGameIDs, lastTags, iterations, lastAnswer, callVars, sessionVars>>

\* return validGames.map(g => window.GIE.convert(g))
RecommendReturn ==
    /\ recPc = "convert"
    /\ validGames' = [i \in 1..Len(validGames) |-> GameInfoExtendedConvert(validGames[i])]
    /\ recPc' = "done"
    /\ UNCHANGED <<threadDB, gameDB, syncVars, addVars, tags, installedGameIDs,
                   lastTags, iterations, lastAnswer, callVars, sessionVars>>

NextRec ==
    \/ RecommendGames
    \/ RecommendLoop
    \/ RecommendLoopThrows
    \/ RecommendReturn

SpecRec == InitRec /\ [][NextRec]_vars

\* Once recommendGames is called: the continuation of an await runs when
\* its promise is settled, and the catalog settles the promise of every
\* query.
SpecRecFair ==
    /\ InitRec
    /\ [][NextRec]_vars
    /\ WF_vars(RecommendLoop)
    /\ WF_vars(RecommendReturn)

(***************************************************************************)
(* getUserDataFromF95: the sync and recommendGames after the login         *)
(***************************************************************************)
\* What the stores may hold at the login: nothing, or one record.
UserThreadStores == {<<>>, <<ThreadInfoConvert(Titles[1])>>}
UserGameStores == {<<>>, <<GameInfoExtendedConvert(Titles[2])>>}

\* The position of the first URL of urls with a thread id, one past the
\* end when there is none: where the for-of loop reaches its first await.
FirstAwait(urls) ==
    LET withId == {i \in 1..Len(urls) : MatchThreadId(urls[i]) # <<>>}
    IN  IF withId = {} THEN Len(urls) + 1
        ELSE CHOOSE i \in withId : \A k \in withId : i <= k

\* getUserDataFromF95 has called updatedThreads(userdata.watchedGameThreads),
\* which it does not await: the call has run into syncDatabaseWatchedThreads,
\* up to its first await, and come back with a promise.  It now calls
\* recommendGames().
InitUser ==
    /\ threadDB \in UserThreadStores
    /\ gameDB \in UserGameStores
    /\ pc = "loop"
    /\ urlList \in SeqsUpTo(WatchUrls, MaxBatch)
    /\ idx = FirstAwait(urlList)
    /\ thread = <<>>
    /\ gameInfo = <<>>
    /\ feed = <<>>
    /\ store0 = threadDB
    /\ syncLog = [i \in 1..(FirstAwait(urlList) - 1) |-> [op |-> "warn", url |-> urlList[i]]]
    /\ addPc = "idle"
    /\ gameFolderPaths = <<>>
    /\ urlInput = <<>>
    /\ addLog = <<>>
    /\ SessionIdle
    /\ RecommendIdle
    /\ CallIdle

\* The continuations of the awaits of the two runs, in the order in which
\* the stores and the catalog answer.
NextUser ==
    \/ SyncSkip
    \/ SyncSearch
    \/ SyncUnchanged
    \/ SyncFetch
    \/ SyncFetchThrows
    \/ SyncInsert
    \/ SyncWrite
    \/ SyncReturn
    \/ OnUnhandledRejection
    \/ GetUpdatedThreads
    \/ PrepareThreadUpdatesTab
    \/ RecommendGames
    \/ RecommendLoop
    \/ RecommendLoopThrows
    \/ RecommendReturn

SpecUser == InitUser /\ [][NextUser]_vars

(***************************************************************************)
(* login on DOMContentLoaded and on every "login" event of #user-info      *)
(***************************************************************************)
\* login() has reached getUserDataFromF95(), which it calls without await
\* and which no flag guards: a "login" event that comes while the run of an
\* earlier login is between two of its awaits starts a run of its own on
\* the same ThreadDB.  Two runs are enough to show what any number does.
Login ==
    /\ pc \in {"loop", "searched", "fetched"}
    /\ otherRun.pc = "idle"
    /\ \E watchedThreads \in SeqsUpTo(WatchUrls, MaxBatch) :
          otherRun' = [pc |-> "loop", urlList |-> watchedThreads,
                       idx |-> FirstAwait(watchedThreads), thread |-> <<>>]
    /\ UNCHANGED <<threadDB, gameDB, syncVars, addVars, recVars, callVars, box, card>>

\* The url the second run stands at.
OtherUrl == otherRun.urlList[otherRun.idx]

\* The second run goes on to the next url with an id: the urls without one
\* are passed without an await.
OtherNext ==
    LET rest == [i \in 1..(Len(otherRun.urlList) - otherRun.idx) |->
                    otherRun.urlList[otherRun.idx + i]]
    IN  [otherRun EXCEPT !.pc = "loop", !.thread = <<>>,
                         !.idx = otherRun.idx + FirstAwait(rest)]

\* const thread = await ThreadDB.search({id: id}), in the second run
OtherSearch ==
    /\ otherRun.pc = "loop"
    /\ otherRun.idx <= Len(otherRun.urlList)
    /\ otherRun' = [otherRun EXCEPT
          !.thread = DbSearchById(threadDB, ThreadIdOfMatch(MatchThreadId(OtherUrl))),
          !.pc = "searched"]
    /\ UNCHANGED <<threadDB, gameDB, syncVars, addVars, recVars, callVars, box, card>>

\* if (thread[0].url === url) continue;
OtherUnchanged ==
    /\ otherRun.pc = "searched"
    /\ ~MustFetch(otherRun.thread, OtherUrl)
    /\ otherRun' = OtherNext
    /\ UNCHANGED <<threadDB, gameDB, syncVars, addVars, recVars, callVars, box, card>>

\* const gameInfo = await F95.getGameDataFromURL(url)
OtherFetch ==
    /\ otherRun.pc = "searched"
    /\ MustFetch(otherRun.thread, OtherUrl)
    /\ otherRun' = [otherRun EXCEPT !.pc = "fetched"]
    /\ UNCHANGED <<threadDB, gameDB, syncVars, addVars, recVars, callVars, box, card>>

\* ... when it throws: the second run is over.
OtherFetchThrows ==
    /\ otherRun.pc = "searched"
    /\ MustFetch(otherRun.thread, OtherUrl)
    /\ otherRun' = [otherRun EXCEPT !.pc = "rejected", !.thread = <<>>]
    /\ UNCHANGED <<threadDB, gameDB, syncVars, addVars, recVars, callVars, box, card>>

\* await ThreadDB.insert(TI.convert(gameInfo))
OtherInsert ==
    /\ otherRun.pc = "fetched"
    /\ ThreadAbsent(otherRun.thread)
    /\ threadDB' = DbInsert(threadDB, InsertedThread(GetGameDataFromURL(OtherUrl)))
    /\ otherRun' = OtherNext
    /\ UNCHANGED <<gameDB, syncVars, addVars, recVars, callVars, box, card>>

\* await ThreadDB.write(threadInfo)
OtherWrite ==
    /\ otherRun.pc = "fetched"
    /\ ~ThreadAbsent(otherRun.thread)
    /\ threadDB' = DbWrite(threadDB, WrittenThread(GetGameDataFromURL(OtherUrl)))
    /\ otherRun' = OtherNext
    /\ UNCHANGED <<gameDB, syncVars, addVars, recVars, callVars, box, card>>

\* The for-of loop of the second run is over.
OtherReturn ==
    /\ otherRun.pc = "loop"
    /\ otherRun.idx > Len(otherRun.urlList)
    /\ otherRun' = [otherRun EXCEPT !.pc = "synced"]
    /\ UNCHANGED <<threadDB, gameDB, syncVars, addVars, recVars, callVars, box, card>>

\* The run of the first login and the run of a later one, their awaits
\* answered in any order.
NextLogin ==
    \/ UpdatedThreads
    \/ SyncSkip
    \/ SyncSearch
    \/ SyncUnchanged
    \/ SyncFetch
    \/ SyncFetchThrows
    \/ SyncInsert
    \/ SyncWrite
    \/ SyncReturn
    \/ Login
    \/ OtherSearch
    \/ OtherUnchanged
    \/ OtherFetch
    \/ OtherFetchThrows
    \/ OtherInsert
    \/ OtherWrite
    \/ OtherReturn

SpecLogin == Init /\ [][NextLogin]_vars

(***************************************************************************)
(* getUpdatedThreads as a function of the two stores                       *)
(***************************************************************************)
\* The flags of a thread: never updated, updated, updated and read.
ThreadFlags ==
    {[updateAvailable |-> FALSE, markedAsRead |-> FALSE],
     [updateAvailable |-> TRUE, markedAsRead |-> FALSE],
     [updateAvailable |-> TRUE, markedAsRead |-> TRUE]}

\* What ThreadDB may hold when the sync has returned: threads of the titles
\* of the catalog, each title at most once, in any order, with any flags.
FeedThreadStores ==
    UNION {{[i \in 1..Len(ids) |->
                [ThreadInfoConvert(Titles[ids[i]]) EXCEPT
                    !.updateAvailable = flags[i].updateAvailable,
                    !.markedAsRead = flags[i].markedAsRead]] :
              flags \in [1..Len(ids) -> ThreadFlags]} :
           ids \in DistinctSeqs(1..Len(Titles), MaxRecords)}

\* What GameDB may hold: games of the titles of the catalog.
FeedGameStores ==
    {[i \in 1..Len(ids) |-> GameInfoExtendedConvert(Titles[ids[i]])] :
        ids \in DistinctSeqs(1..Len(Titles), MaxRecords)}

\* syncDatabaseWatchedThreads has returned.
InitFeed ==
    /\ threadDB \in FeedThreadStores
    /\ gameDB \in FeedGameStores
    /\ pc = "synced"
    /\ urlList = <<>>
    /\ idx = 0
    /\ thread = <<>>
    /\ gameInfo = <<>>
    /\ feed = <<>>
    /\ store0 = <<>>
    /\ syncLog = <<>>
    /\ addPc = "idle"
    /\ gameFolderPaths = <<>>
    /\ urlInput = <<>>
    /\ addLog = <<>>
    /\ SessionIdle
    /\ RecommendIdle
    /\ CallIdle

NextFeed ==
    \/ GetUpdatedThreads
    \/ PrepareThreadUpdatesTab
    \/ MarkAsRead

SpecFeed == InitFeed /\ [][NextFeed]_vars

(***************************************************************************)
(* mostFrequent as a function of its arguments                             *)
(***************************************************************************)
\* Longest array handed to mostFrequent.
MaxItems == 4

\* Largest n handed to mostFrequent.
MaxN == 3

\* The values of the array: two ordinary tags, two tags that are strings of
\* digits and the name that every object inherits.
Values == {<<"a">>, <<"b">>, <<"2">>, <<"1", "0">>, ProtoKey}

InitTopN ==
    /\ threadDB = <<>>
    /\ gameDB = <<>>
    /\ HandlersIdle
    /\ RecommendIdle
    /\ callPc = "called"
    /\ callArgs \in [arr : SeqsUpTo(Values, MaxItems), n : 0..MaxN]
    /\ callReturned = <<>>

\* mostFrequent(arr, n) returns.
MostFrequentReturn ==
    /\ callPc = "called"
    /\ callReturned' = MostFrequent(callArgs.arr, callArgs.n)
    /\ callPc' = "returned"
    /\ UNCHANGED <<threadDB, gameDB, syncVars, addVars, recVars, callArgs, sessionVars>>

NextTopN == MostFrequentReturn

SpecTopN == InitTopN /\ [][NextTopN]_vars

(***************************************************************************)
(* removeSpecials as a function of its arguments                           *)
(***************************************************************************)
\* Longest string handed to removeSpecials.
MaxNameLen == 6

\* The characters of the string: two letters, one of them with an upper-case
\* form of two characters, two special characters, one of them in the list
\* of cleanGameName, and the blank.
NameChars == {Eszett, "a", "!", ".", " "}

\* The lists of allowed characters: none, and the list of cleanGameName.
AllowLists == {{}, VersionChars}

InitNorm ==
    /\ threadDB = <<>>
    /\ gameDB = <<>>
    /\ HandlersIdle
    /\ RecommendIdle
    /\ callPc = "called"
    /\ callArgs \in [str : SeqsUpTo(NameChars, MaxNameLen), allowedChars : AllowLists]
    /\ callReturned = <<>>

\* removeSpecials(str, allowedChars) returns.
RemoveSpecialsReturn ==
    /\ callPc = "called"
    /\ callReturned' = RemoveSpecials(callArgs.str, callArgs.allowedChars)
    /\ callPc' = "returned"
    /\ UNCHANGED <<threadDB, gameDB, syncVars, addVars, recVars, callArgs, sessionVars>>

NextNorm == RemoveSpecialsReturn

SpecNorm == InitNorm /\ [][NextNorm]_vars

(***************************************************************************)
(* cleanGameName as a function of its argument                             *)
(***************************************************************************)
\* Longest name handed to cleanGameName, the name of the example aside.
MaxCleanLen == 5

\* The characters of the name: a letter, the brackets of a tag, a reserved
\* character, the blank and the line feed.
CleanChars == {"a", "[", "]", "?", " ", LineFeed}

\* "Some Game [MOD][v.1.0]"
SomeGameModV10 ==
    <<"S", "o", "m", "e", " ", "G", "a", "m", "e", " ", "[", "M", "O", "D", "]",
      "[", "v", ".", "1", ".", "0", "]">>

InitClean ==
    /\ threadDB = <<>>
    /\ gameDB = <<>>
    /\ HandlersIdle
    /\ RecommendIdle
    /\ callPc = "called"
    /\ callArgs \in [name : SeqsUpTo(CleanChars, MaxCleanLen) \cup {SomeGameModV10}]
    /\ callReturned = <<>>

\* cleanGameName(name) returns.
CleanGameNameReturn ==
    /\ callPc = "called"
    /\ callReturned' = CleanGameName(callArgs.name)
    /\ callPc' = "returned"
    /\ UNCHANGED <<threadDB, gameDB, syncVars, addVars, recVars, callArgs, sessionVars>>

NextClean == CleanGameNameReturn

SpecClean == InitClean /\ [][NextClean]_vars

(***************************************************************************)
(* getGameVersionFromName as a function of its argument                    *)
(***************************************************************************)
\* Longest name handed to getGameVersionFromName, the examples aside.
MaxVersionLen == 6

\* The characters of the name: those of a version tag and a letter with an
\* upper-case form of two characters.
VersionNameChars == {"[", "v", ".", "1", "]", Eszett}

\* "MyGame [v.1.2.3.4]", "MyGame", "[V.b]"
MyGame == <<"M", "y", "G", "a", "m", "e">>
MyGameV1234 == MyGame \o <<" ", "[", "v", ".", "1", ".", "2", ".", "3", ".", "4", "]">>
UpperTagLowerVersion == <<"[", "V", ".", "b", "]">>

InitVersion ==
    /\ threadDB = <<>>
    /\ gameDB = <<>>
    /\ HandlersIdle
    /\ RecommendIdle
    /\ callPc = "called"
    /\ callArgs \in [name : SeqsUpTo(VersionNameChars, MaxVersionLen)
                              \cup {MyGame, MyGameV1234, UpperTagLowerVersion}]
    /\ callReturned = <<>>

\* getGameVersionFromName(name) returns.
GetGameVersionFromNameReturn ==
    /\ callPc = "called"
    /\ callReturned' = GetGameVersionFromName(callArgs.name)
    /\ callPc' = "returned"
    /\ UNCHANGED <<threadDB, gameDB, syncVars, addVars, recVars, callArgs, sessionVars>>

NextVersion == GetGameVersionFromNameReturn

SpecVersion == InitVersion /\ [][NextVersion]_vars

(***************************************************************************)
(* The thread id of a URL, as syncDatabaseWatchedThreads extracts it       *)
(***************************************************************************)
\* Longest URL, the example aside.
MaxUrlLen == 5

\* The characters of the URL: the dot, three digits, a letter and the slash.
UrlChars == {".", "0", "1", "2", "a", "/"}

\* "https://site.example/threads/cool-game.12345/"
CoolGameUrl ==
    <<"h", "t", "t", "p", "s", ":", "/", "/", "s", "i", "t", "e", ".", "e", "x",
      "a", "m", "p", "l", "e", "/", "t", "h", "r", "e", "a", "d", "s", "/", "c",
      "o", "o", "l", "-", "g", "a", "m", "e", ".", "1", "2", "3", "4", "5", "/">>

InitThreadId ==
    /\ threadDB = <<>>
    /\ gameDB = <<>>
    /\ HandlersIdle
    /\ RecommendIdle
    /\ callPc = "called"
    /\ callArgs \in [url : SeqsUpTo(UrlChars, MaxUrlLen) \cup {CoolGameUrl}]
    /\ callReturned = <<>>

\* const match = url.match(...); if (!match) continue;
\* const id = parseInt(match[0].replace(".", "")): no id, or the id.
ExtractThreadId ==
    /\ callPc = "called"
    /\ callReturned' = IF Len(MatchThreadId(callArgs.url)) = 0 THEN <<>>
                       ELSE <<ThreadIdOfMatch(MatchThreadId(callArgs.url))>>
    /\ callPc' = "returned"
    /\ UNCHANGED <<threadDB, gameDB, syncVars, addVars, recVars, callArgs, sessionVars>>

NextThreadId == ExtractThreadId

SpecThreadId == InitThreadId /\ [][NextThreadId]_vars

(***************************************************************************)
(* getUnlistedGamesInArrayOfPath as a function of GameDB and its argument  *)
(***************************************************************************)
\* Most paths handed to getUnlistedGamesInArrayOfPath.
MaxPaths == 3

\* Most paths of a selection that holds many directories of "G".
MaxManyPaths == 7

\* Longest name of an installed game whose directory carries a tag, the
\* name of the example aside.
MaxTitleLen == 3

\* The characters of such a name: a letter, a reserved character, the
\* brackets and the blank.
TitleChars == {"a", ":", "[", "]", " "}

\* "Title: Part 2"
TitlePart2 == <<"T", "i", "t", "l", "e", ":", " ", "P", "a", "r", "t", " ", "2">>

TitleNames == SeqsUpTo(TitleChars, MaxTitleLen) \cup {TitlePart2}

\* The tags a directory name may end with, after a blank or not.
TagGroups ==
    {<<"[", "v", ".", "2", "]">>, <<"[", "M", "O", "D", "]">>,
     <<"[", "v", ".", LineFeed, "2", "]">>}
TagSeparators == {<<>>, <<" ">>}

\* An installed game of the given name, and a directory of the given name.
GameNamed(name) == [GameInfoExtendedConvert(TitleInfo(1, <<>>)) EXCEPT !.name = name]
DirNamed(name) == <<"d", "/">> \o name

\* GameDB and the selected paths: games of the catalog and some of the
\* directories, or one game and a directory named after it with a tag, or
\* the game "G" and many directories, of "G" or of no game.
UnlistedInputs ==
    {[games |-> games, paths |-> paths] :
        games \in FeedGameStores, paths \in SeqsUpTo(Directories, MaxPaths)}
    \cup
    {[games |-> <<GameNamed(nt[1])>>, paths |-> <<DirNamed(nt[1] \o nt[2] \o nt[3])>>] :
        nt \in TitleNames \X TagSeparators \X TagGroups}
    \cup
    {[games |-> <<GameInfoExtendedConvert(Titles[1])>>, paths |-> paths] :
        paths \in SeqsUpTo({DirGv, DirV}, MaxManyPaths)
                  \ SeqsUpTo({DirGv, DirV}, MaxPaths)}

InitUnlisted ==
    /\ threadDB = <<>>
    /\ HandlersIdle
    /\ RecommendIdle
    /\ callPc = "called"
    /\ \E input \in UnlistedInputs :
          /\ gameDB = input.games
          /\ callArgs = [paths |-> input.paths]
    /\ callReturned = <<>>

\* getUnlistedGamesInArrayOfPath(paths) returns gameFolderPaths, having
\* collected alreadyPresentGames for its notifications.
GetUnlistedGamesReturn ==
    /\ callPc = "called"
    /\ callReturned' =
          [gameFolderPaths |-> GetUnlistedGamesInArrayOfPath(callArgs.paths, gameDB),
           alreadyPresentGames |-> AlreadyPresentGames(callArgs.paths, gameDB),
           toasts |-> Toasts(AlreadyPresentGames(callArgs.paths, gameDB))]
    /\ callPc' = "returned"
    /\ UNCHANGED <<threadDB, gameDB, syncVars, addVars, recVars, callArgs, sessionVars>>

NextUnlisted == GetUnlistedGamesReturn

SpecUnlisted == InitUnlisted /\ [][NextUnlisted]_vars

(***************************************************************************)
(* updatedThreads called again with the watch-list of the run before       *)
(***************************************************************************)
\* The mark in the log of the run between the first and the second run.
Again == [op |-> "again", url |-> <<>>]

InitTwice ==
    /\ threadDB \in FeedThreadStores
    /\ gameDB = <<>>
    /\ HandlersIdle
    /\ RecommendIdle
    /\ CallIdle

\* The sync of a run is over, returned or rejected, and updatedThreads is
\* called with the same watch-list: a second sync on the ThreadDB the first
\* left.
UpdatedThreadsAgain ==
    /\ pc \in {"synced", "rejected"}
    /\ \A i \in 1..Len(syncLog) : syncLog[i] # Again
    /\ pc' = "loop"
    /\ idx' = 1
    /\ thread' = <<>>
    /\ gameInfo' = <<>>
    /\ store0' = threadDB
    /\ syncLog' = Append(syncLog, Again)
    /\ UNCHANGED <<threadDB, gameDB, urlList, feed, addVars, recVars, callVars, sessionVars>>

NextTwice ==
    \/ UpdatedThreads
    \/ SyncSkip
    \/ SyncSearch
    \/ SyncUnchanged
    \/ SyncFetch
    \/ SyncFetchThrows
    \/ SyncInsert
    \/ SyncWrite
    \/ SyncReturn
    \/ UpdatedThreadsAgain

SpecTwice == InitTwice /\ [][NextTwice]_vars

(***************************************************************************)
(* The window of the messagebox: preload and renderer                      *)
(***************************************************************************)
\* Array of valid render-to-main channels, and of valid main-to-render ones.
validSendChannels == {"messagebox-closing", "window-resize", "translate"}
validReceiveChannels == {"messagebox-arguments"}

\* API.send(channel, ...data): what ipcRenderer has sent after the call.
ApiSend(sent, channel, data) ==
    IF channel \in validSendChannels
    THEN Append(sent, [channel |-> channel, data |-> data])
    ELSE sent

\* API.once(channel, func): the channels ipcRenderer listens on after the call.
ApiOnce(listeners, channel) ==
    IF channel \in validReceiveChannels THEN listeners \cup {channel} ELSE listeners

\* The names of the default buttons, and the lists of buttons of a window:
\* some of them, in that order, one at least.
DefaultButtons == <<"close", "remove-only", "delete", "cancel">>
ButtonLists ==
    {SelectSeq(DefaultButtons, LAMBDA b : b \in chosen) :
        chosen \in (SUBSET {"close", "remove-only", "delete", "cancel"}) \ {{}}}

\* The checkboxes of a window as createCheckboxes builds them: none, or
\* "preserve-savegame" with its attribute checked set to "checked" or to "".
CheckboxLists ==
    {<<>>} \cup {<<[id |-> "preserve-savegame", attribute |-> a, checked |-> a = "checked"]>> :
                    a \in {"checked", ""}}

\* The arguments the main process has for a window.
BoxArguments ==
    {[type |-> t, buttons |-> b, checkboxes |-> c] :
        t \in {"info", "warning", "error"}, b \in ButtonLists, c \in CheckboxLists}

\* The channels the main process may deliver the arguments on: the one the
\* renderer names and the one the preload lets through.
ArgumentChannels == {"window-arguments", "messagebox-arguments"}

\* Most deliveries of the arguments to one window.
MaxDeliveries == 2

\* The window is created: its script has not run yet.
InitBox ==
    /\ threadDB = <<>>
    /\ gameDB = <<>>
    /\ MainIdle
    /\ RecommendIdle
    /\ CallIdle
    /\ otherRun = NoRun
    /\ card = <<>>
    /\ \E args \in BoxArguments :
          box = [stage |-> "created", args |-> args, listeners |-> {},
                 delivered |-> 0, prepared |-> <<>>]

\* The script of the renderer runs to its end:
\* window.API.once("window-arguments", function (args) { ... })
RendererLoaded ==
    /\ box.stage = "created"
    /\ box' = [box EXCEPT !.stage = "loaded",
                          !.listeners = ApiOnce(box.listeners, "window-arguments")]
    /\ UNCHANGED <<threadDB, gameDB, syncVars, addVars, recVars, callVars, otherRun, card>>

\* The main process delivers the arguments of the window on a channel: a
\* listener registered with once is called, prepare(args) runs, and the
\* listener is gone; without a listener the message is lost.
ArgumentsDelivered ==
    /\ box.stage = "loaded"
    /\ box.delivered < MaxDeliveries
    /\ \E channel \in ArgumentChannels :
          box' = [box EXCEPT
                     !.delivered = box.delivered + 1,
                     !.listeners = box.listeners \ {channel},
                     !.prepared = IF channel \in box.listeners
                                  THEN Append(box.prepared, box.args)
                                  ELSE box.prepared]
    /\ UNCHANGED <<threadDB, gameDB, syncVars, addVars, recVars, callVars, otherRun, card>>

NextBox ==
    \/ RendererLoaded
    \/ ArgumentsDelivered

SpecBox == InitBox /\ [][NextBox]_vars

(***************************************************************************)
(* onButtonClick in a window of the messagebox                             *)
(***************************************************************************)
\* Most clicks on the buttons of one window.
MaxClicks == 2

\* The page with the buttons and the checkboxes of the arguments, as
\* createButtons and createCheckboxes build them in prepare.
InitClick ==
    /\ threadDB = <<>>
    /\ gameDB = <<>>
    /\ MainIdle
    /\ RecommendIdle
    /\ CallIdle
    /\ otherRun = NoRun
    /\ card = <<>>
    /\ \E args \in BoxArguments :
          box = [stage |-> "prepared", buttons |-> args.buttons,
                 checkboxes |-> args.checkboxes, clicks |-> <<>>, sent |-> <<>>]

\* The user clicks a checkbox: it is checked or not, its attribute is as
\* createCheckboxes set it.
CheckboxToggled ==
    /\ box.stage = "prepared"
    /\ \E i \in 1..Len(box.checkboxes) :
          box' = [box EXCEPT !.checkboxes[i].checked = ~box.checkboxes[i].checked]
    /\ UNCHANGED <<threadDB, gameDB, syncVars, addVars, recVars, callVars, otherRun, card>>

\* document.querySelectorAll("input[type='checkbox'][checked='checked']"),
\* mapped to the ids: the checkboxes whose attribute checked is "checked".
QuerySelected(checkboxes) ==
    LET matching == SelectSeq(checkboxes, LAMBDA c : c.attribute = "checked")
    IN  [i \in 1..Len(matching) |-> matching[i].id]

\* onButtonClick(e), e.target the button of the given id
OnButtonClick ==
    /\ box.stage = "prepared"
    /\ Len(box.clicks) < MaxClicks
    /\ \E b \in 1..Len(box.buttons) :
          LET dict == [button |-> box.buttons[b],
                       checkboxes |-> QuerySelected(box.checkboxes)]
          IN  box' = [box EXCEPT
                         !.clicks = Append(box.clicks,
                                           [button |-> box.buttons[b],
                                            checked |-> {box.checkboxes[i].id :
                                                           i \in {k \in 1..Len(box.checkboxes) :
                                                                     box.checkboxes[k].checked}}]),
                         !.sent = ApiSend(box.sent, "window-close", <<dict>>)]
    /\ UNCHANGED <<threadDB, gameDB, syncVars, addVars, recVars, callVars, otherRun, card>>

NextClick ==
    \/ CheckboxToggled
    \/ OnButtonClick

SpecClick == InitClick /\ [][NextClick]_vars

(***************************************************************************)
(* gameCardDelete, one action per await                                    *)
(***************************************************************************)
\* Most save paths of a game.
MaxSaves == 2

\* The paths of the saves of a game.
SavePaths == {<<"s", "/", "1">>, <<"s", "/", "2">>, <<"s", "/", "3">>}

\* The event "delete" of a game card: e.detail of a game of GameDB, and the
\* dialog is on the screen.
InitCard ==
    /\ threadDB = <<>>
    /\ MainIdle
    /\ RecommendIdle
    /\ CallIdle
    /\ otherRun = NoRun
    /\ box = <<>>
    /\ gameDB \in {db \in FeedGameStores : Len(db) > 0}
    /\ \E k \in 1..Len(gameDB), saves \in DistinctSeqs(SavePaths, MaxSaves),
          path \in {DirG, DirH} :
          card = [pc |-> "dialog", id |-> gameDB[k].id, name |-> gameDB[k].name,
                  gameDirectory |-> path, savePaths |-> saves,
                  button |-> "", checkboxes |-> {}, copied |-> 0, log |-> <<>>]

\* const savesExists = e.detail.savePaths.length !== 0 ? true : false
SavesExists == Len(card.savePaths) # 0

\* const copySaves = savesExists
\*     ? data.checkboxes.includes("preserve-savegame") : false
CopySaves(savesExists, checkboxes) ==
    IF savesExists THEN "preserve-savegame" \in checkboxes ELSE FALSE

\* The folder goes unless the user cancels.
DeletesFolderUnlessCancel(button) == button # "cancel"

\* if (data.button === "delete")
DeletesFolder(button) == button = "delete"

\* What gameCardDelete has done on the disk and on the data, in order.
CardLogged(op, path) == Append(card.log, [op |-> op, path |-> path])

\* Where gameCardDelete goes when the saves are dealt with.
AfterSaves(button) == IF DeletesFolder(button) THEN "deleteFolder" ELSE "deleteData"

\* const data = await window.API.invoke("require-messagebox", dialogOptions);
\* if (!data) return;
CardDialogDismissed ==
    /\ card.pc = "dialog"
    /\ card' = [card EXCEPT !.pc = "done"]
    /\ UNCHANGED <<threadDB, gameDB, syncVars, addVars, recVars, callVars, otherRun, box>>

\* ... the user pressed a button, with the checkbox, if there is one,
\* checked or not: "cancel" returns, the others go on.
CardDialogAnswered ==
    /\ card.pc = "dialog"
    /\ \E button \in {"remove-only", "delete", "cancel"},
          checkboxes \in SUBSET (IF SavesExists THEN {"preserve-savegame"} ELSE {}) :
          card' = [card EXCEPT
                      !.button = button,
                      !.checkboxes = checkboxes,
                      !.pc = IF button = "cancel" THEN "done"
                             ELSE IF CopySaves(SavesExists, checkboxes) /\ Len(card.name) > 0
                                  THEN "mkdir"
                                  ELSE AfterSaves(button)]
    /\ UNCHANGED <<threadDB, gameDB, syncVars, addVars, recVars, callVars, otherRun, box>>

\* await window.IO.mkdir(gameDirectory), the directory of the exported saves
CardMkdir ==
    /\ card.pc = "mkdir"
    /\ card' = [card EXCEPT !.log = CardLogged("mkdir", CleanGameName(card.name)),
                            !.pc = "copy"]
    /\ UNCHANGED <<threadDB, gameDB, syncVars, addVars, recVars, callVars, otherRun, box>>

\* for (const path of e.detail.savePaths) await window.IO.copy(path, newName)
CardCopy ==
    /\ card.pc = "copy"
    /\ card' = [card EXCEPT
                   !.log = CardLogged("copy", card.savePaths[card.copied + 1]),
                   !.copied = card.copied + 1,
                   !.pc = IF card.copied + 1 < Len(card.savePaths) THEN "copy"
                          ELSE AfterSaves(card.button)]
    /\ UNCHANGED <<threadDB, gameDB, syncVars, addVars, recVars, callVars, otherRun, box>>

\* await window.IO.deleteFolder(gameDirectory)
CardDeleteFolder ==
    /\ card.pc = "deleteFolder"
    /\ card' = [card EXCEPT !.log = CardLogged("deleteFolder", card.gameDirectory),
                            !.pc = "deleteData"]
    /\ UNCHANGED <<threadDB, gameDB, syncVars, addVars, recVars, callVars, otherRun, box>>

\* await e.target.deleteData(): the record of the game leaves GameDB.
CardDeleteData ==
    /\ card.pc = "deleteData"
    /\ gameDB' = SelectSeq(gameDB, LAMBDA g : g.id # card.id)
    /\ card' = [card EXCEPT !.log = CardLogged("deleteData", <<>>), !.pc = "done"]
    /\ UNCHANGED <<threadDB, syncVars, addVars, recVars, callVars, otherRun, box>>

\* An operation on the disk or on the data throws: nothing in gameCardDelete
\* catches, the handler is over.
CardThrows ==
    /\ card.pc \in {"mkdir", "copy", "deleteFolder", "deleteData"}
    /\ card' = [card EXCEPT !.pc = "rejected"]
    /\ UNCHANGED <<threadDB, gameDB, syncVars, addVars, recVars, callVars, otherRun, box>>

NextCard ==
    \/ CardDialogDismissed
    \/ CardDialogAnswered
    \/ CardMkdir
    \/ CardCopy
    \/ CardDeleteFolder
    \/ CardDeleteData
    \/ CardThrows

SpecCard == InitCard /\ [][NextCard]_vars

(***************************************************************************)
(* Properties                                                              *)
(***************************************************************************)
\* The url the for-of loop of the sync stands at, and the id the sync
\* extracts from it.
CurrentUrl == urlList[idx]
CurrentId == ThreadIdOfMatch(MatchThreadId(CurrentUrl))

\* No two records of db share an id.
UniqueIds(db) == \A i, j \in 1..Len(db) : db[i].id = db[j].id => i = j

\* The last entry of the log of the run.
LastLogged(log, op, url) ==
    /\ Len(log) > 0
    /\ log[Len(log)] = [op |-> op, url |-> url]

\* The records of db other than those of id, in order.
OtherRecords(db, id) == SelectSeq(db, LAMBDA r : r.id # id)

\* C1: for a url whose id has no record in ThreadStore, the sync fetches the
\* metadata of that url from the catalog and inserts exactly one record for
\* it, with updateAvailable and markedAsRead both false.
C1_NewThreadInserted ==
    [][/\ (pc = "loop" /\ pc' = "searched")
          => ((thread' = <<>>) <=> (CurrentId \notin DbIds(threadDB)))
       /\ (pc = "searched" /\ thread = <<>> /\ pc' # pc)
          => /\ threadDB' = threadDB
             /\ pc' \in {"fetched", "rejected"}
             /\ pc' = "fetched"
                => /\ gameInfo' = <<GetGameDataFromURL(CurrentUrl)>>
                   /\ LastLogged(syncLog', "fetch", CurrentUrl)
       /\ (pc = "fetched" /\ thread = <<>> /\ pc' # pc)
          => /\ pc' = "loop"
             /\ idx' = idx + 1
             /\ threadDB' = Append(threadDB,
                    [id |-> CurrentId, url |-> CurrentUrl,
                     name |-> GetGameDataFromURL(CurrentUrl).name,
                     tags |-> GetGameDataFromURL(CurrentUrl).tags,
                     updateAvailable |-> FALSE, markedAsRead |-> FALSE])
             /\ Len(DbSearchById(threadDB', CurrentId)) = 1
      ]_vars

\* C1 witness: the run has just inserted the thread of its first url, which
\* ThreadStore did not hold when the run started.
C1_Witness ==
    /\ pc = "loop"
    /\ idx = 2
    /\ LastLogged(syncLog, "insert", urlList[1])
    /\ ThreadIdOfMatch(MatchThreadId(urlList[1])) \notin DbIds(store0)
    /\ \E i \in 1..Len(threadDB) :
          /\ threadDB[i].url = urlList[1]
          /\ ~threadDB[i].updateAvailable
          /\ ~threadDB[i].markedAsRead

\* C2: for a url whose id has a record stored under the same url, the sync
\* does nothing: ThreadStore is unchanged and the catalog is not queried.
C2_UnchangedUrlIsNoOp ==
    [][/\ (pc = "loop" /\ pc' = "searched")
          => /\ thread' = DbSearchById(threadDB, CurrentId)
             /\ threadDB' = threadDB
       /\ (pc = "searched" /\ thread # <<>> /\ pc' # pc)
          => (thread[1].url = CurrentUrl
              => /\ pc' = "loop"
                 /\ idx' = idx + 1
                 /\ threadDB' = threadDB
                 /\ gameInfo' = <<>>
                 /\ syncLog' = syncLog)
      ]_vars

\* C2 witness: the run searched the thread of its first url, found it under
\* that url and went on to the next url with nothing fetched.
C2_Witness ==
    /\ pc = "loop"
    /\ idx = 2
    /\ syncLog = <<[op |-> "search", url |-> urlList[1]]>>
    /\ \E i \in 1..Len(threadDB) : threadDB[i].url = urlList[1]
    /\ threadDB = store0

\* C3: for a url whose id has a record stored under another url, the sync
\* fetches the metadata of the new url and replaces the record of that id by
\* it, with updateAvailable true and markedAsRead false, whatever the flags
\* of the record were.
C3_ChangedUrlOverwrites ==
    [][/\ (pc = "searched" /\ thread # <<>> /\ pc' # pc)
          => (thread[1].url # CurrentUrl
              => /\ threadDB' = threadDB
                 /\ pc' \in {"fetched", "rejected"}
                 /\ pc' = "fetched"
                    => /\ gameInfo' = <<GetGameDataFromURL(CurrentUrl)>>
                       /\ LastLogged(syncLog', "fetch", CurrentUrl))
       /\ (pc = "fetched" /\ thread # <<>> /\ pc' # pc)
          => /\ pc' = "loop"
             /\ idx' = idx + 1
             /\ DbSearchById(threadDB', CurrentId) =
                    <<[id |-> CurrentId, url |-> CurrentUrl,
                       name |-> GetGameDataFromURL(CurrentUrl).name,
                       tags |-> GetGameDataFromURL(CurrentUrl).tags,
                       updateAvailable |-> TRUE, markedAsRead |-> FALSE]>>
             /\ OtherRecords(threadDB', CurrentId) = OtherRecords(threadDB, CurrentId)
             /\ Len(threadDB') = Len(threadDB)
      ]_vars

\* C3 witness: the run has just overwritten a record that was marked as read
\* when the run started; it is stored under the new url and flagged again.
C3_Witness ==
    /\ pc = "loop"
    /\ idx = 2
    /\ LastLogged(syncLog, "write", urlList[1])
    /\ \E i \in 1..Len(store0) :
          /\ store0[i].id = ThreadIdOfMatch(MatchThreadId(urlList[1]))
          /\ store0[i].url # urlList[1]
          /\ store0[i].markedAsRead
          /\ store0[i].tags # GetGameDataFromURL(urlList[1]).tags
    /\ \E i \in 1..Len(threadDB) :
          /\ threadDB[i].url = urlList[1]
          /\ threadDB[i].updateAvailable
          /\ ~threadDB[i].markedAsRead

\* C4: when the lookup of one url of the batch throws, every remaining url
\* of the batch is still processed: a run never ends on a failure with urls
\* left after the failing one.
C4_FailureDoesNotAbortBatch ==
    pc = "rejected" => idx = Len(urlList)

\* A url in which no dot is followed by a digit.
NoDottedDigits(url) ==
    \A i \in 1..(Len(url) - 1) :
        ~(url[i] = "." /\ url[i + 1] \in {Digits[d] : d \in 1..Len(Digits)})

\* C5: a url from which no thread id can be extracted is skipped and
\* reported: no ThreadStore query, no catalog call, no store change, and
\* the loop goes on with the next url.
C5_UrlWithoutIdSkipped ==
    [][(pc = "loop" /\ idx <= Len(urlList) /\ (pc' # pc \/ idx' # idx))
         => (NoDottedDigits(CurrentUrl)
             => /\ pc' = "loop"
                /\ idx' = idx + 1
                /\ urlList' = urlList
                /\ threadDB' = threadDB
                /\ thread' = <<>>
                /\ gameInfo' = <<>>
                /\ syncLog' = Append(syncLog, [op |-> "warn", url |-> CurrentUrl]))
      ]_vars

\* C5 witness: the first url of the batch had no id and was reported, and
\* the run has gone on to search the thread of the second url.
C5_Witness ==
    /\ pc = "searched"
    /\ idx = 2
    /\ NoDottedDigits(urlList[1])
    /\ syncLog = <<[op |-> "warn", url |-> urlList[1]],
                   [op |-> "search", url |-> urlList[2]]>>
    /\ threadDB = store0

\* The urls of the batch have an id each, and no two the same id.
DistinctThreadIds(urls) ==
    /\ \A i \in 1..Len(urls) : MatchThreadId(urls[i]) # <<>>
    /\ \A i, j \in 1..Len(urls) :
          ThreadIdOfMatch(MatchThreadId(urls[i])) = ThreadIdOfMatch(MatchThreadId(urls[j]))
             => i = j

\* The same records, whatever their order in the store.
SameRecords(a, b) ==
    /\ Len(a) = Len(b)
    /\ {a[i] : i \in 1..Len(a)} = {b[i] : i \in 1..Len(b)}

\* The urls for which the catalog threw in the run.
FailedUrls == {syncLog[i].url : i \in {k \in 1..Len(syncLog) : syncLog[k].op = "throw"}}

\* C6: for a batch of urls with pairwise distinct ids, ThreadStore after the
\* sync is the same for every ordering of the batch (the catalog answering
\* each url as it did in the run).
C6_OrderIndependent ==
    (/\ pc \in {"synced", "rejected"}
     /\ DistinctThreadIds(urlList)
     /\ threadDB = SyncResult(store0, urlList, FailedUrls))
    => \A p \in Permutations(1..Len(urlList)) :
          SameRecords(threadDB,
                      SyncResult(store0, [i \in 1..Len(urlList) |-> urlList[p[i]]], FailedUrls))

C8_GameIdsUnique == UniqueIds(gameDB)

\* ThreadStore holds a record of id that is flagged as updated.
FlaggedUpdated(db, id) ==
    \E i \in 1..Len(db) : db[i].id = id /\ db[i].updateAvailable

\* C9: a record gets updateAvailable = true only in the step of the sync
\* that writes it after the url stored for its id was seen to differ from
\* the incoming url; no other step sets the flag.
C9_UpdateOnlyOnChangedUrl ==
    [][\A id \in DbIds(threadDB') :
          (FlaggedUpdated(threadDB', id) /\ ~FlaggedUpdated(threadDB, id))
          => /\ pc = "fetched"
             /\ pc' = "loop"
             /\ thread # <<>>
             /\ thread[1].id = id
             /\ CurrentId = id
             /\ thread[1].url # CurrentUrl
             /\ LastLogged(syncLog', "write", CurrentUrl)
      ]_vars

\* C9 witness: the run has just written a record that is flagged as updated
\* and that was not flagged when the run started.
C9_Witness ==
    /\ pc = "loop"
    /\ idx > 1
    /\ LastLogged(syncLog, "write", urlList[idx - 1])
    /\ FlaggedUpdated(threadDB, ThreadIdOfMatch(MatchThreadId(urlList[idx - 1])))
    /\ ~FlaggedUpdated(store0, ThreadIdOfMatch(MatchThreadId(urlList[idx - 1])))

\* C10: getUpdatedThreads returns no thread whose id is the id of a game
\* record of LibraryStore.
C10_FeedExcludesInstalled ==
    [][(pc = "synced" /\ pc' = "feed")
         => \A i \in 1..Len(feed') :
                \A g \in 1..Len(gameDB') : gameDB'[g].id # feed'[i].id
      ]_vars

\* C10 witness: getUpdatedThreads has returned while ThreadStore holds an
\* updated, unread thread of an installed game.
C10_Witness ==
    /\ pc = "feed"
    /\ \E i \in 1..Len(threadDB) :
          /\ threadDB[i].updateAvailable
          /\ ~threadDB[i].markedAsRead
          /\ threadDB[i].id \in DbIds(gameDB)
          /\ \A k \in 1..Len(feed) : feed[k].id # threadDB[i].id

\* A ThreadRecord that getPendingUpdates has to return.
IsPending(t) ==
    /\ t.updateAvailable
    /\ ~t.markedAsRead
    /\ t.id \notin DbIds(gameDB)

\* C11: the feed that getUpdatedThreads returns holds exactly the records of
\* ThreadStore that have an update, are not marked as read and whose id is
\* not installed, each once, in ascending order of name.
C11_FeedExactAndSortedByName ==
    [][(pc = "synced" /\ pc' = "feed") =>
          /\ \A i \in 1..Len(feed') :
                /\ IsPending(feed'[i])
                /\ \E k \in 1..Len(threadDB) : threadDB[k] = feed'[i]
          /\ \A k \in 1..Len(threadDB) :
                IsPending(threadDB[k]) =>
                   Cardinality({i \in 1..Len(feed') : feed'[i] = threadDB[k]}) = 1
          /\ \A i, j \in 1..Len(feed') :
                i < j => StrLess(feed'[i].name, feed'[j].name)
                         \/ feed'[i].name = feed'[j].name]_vars

\* C11 witness: two threads are pending and ThreadStore holds them in the
\* other order than the feed.
C11_Witness ==
    /\ pc = "feed"
    /\ Len(feed) = 2
    /\ feed[1].name = NameG
    /\ feed[2].name = NameH
    /\ Len(threadDB) = 2
    /\ threadDB[1].name = NameH
    /\ threadDB[2].name = NameG

\* The number of occurrences of v in items.
Occurrences(items, v) == Cardinality({i \in 1..Len(items) : items[i] = v})

\* The place of the first occurrence of v in items.
FirstOccurrence(items, v) ==
    CHOOSE i \in 1..Len(items) :
       items[i] = v /\ \A j \in 1..(i - 1) : items[j] # v

DistinctValues(items) == {items[i] : i \in 1..Len(items)}

\* C17: what topN returns is sorted by descending number of occurrences,
\* and of two values that occur equally often the one that occurs first in
\* items comes first, also for values that are strings of digits.
C17_SortedByCountThenFirstOccurrence ==
    callPc = "returned" =>
       \A i, j \in 1..Len(callReturned) :
          i < j =>
             \/ Occurrences(callArgs.arr, callReturned[i]) > Occurrences(callArgs.arr, callReturned[j])
             \/ /\ Occurrences(callArgs.arr, callReturned[i]) = Occurrences(callArgs.arr, callReturned[j])
                /\ FirstOccurrence(callArgs.arr, callReturned[i]) < FirstOccurrence(callArgs.arr, callReturned[j])

\* C18: topN(items, n) returns min(n, number of distinct values) values,
\* each a value of items, none twice; nothing for an empty items.
C18_ReturnsMinOfNAndDistinct ==
    callPc = "returned" =>
       /\ Len(callReturned) = IF callArgs.n < Cardinality(DistinctValues(callArgs.arr))
                             THEN callArgs.n ELSE Cardinality(DistinctValues(callArgs.arr))
       /\ \A i \in 1..Len(callReturned) : callReturned[i] \in DistinctValues(callArgs.arr)
       /\ \A i, j \in 1..Len(callReturned) : callReturned[i] = callReturned[j] => i = j
       /\ (callArgs.arr = <<>> => callReturned = <<>>)

\* C12: recommendGames never holds, and so never returns, more than
\* MAX_GAMES games, whatever the catalog answers.
C12_AtMostMaxGames == Len(validGames) <= MAX_GAMES

\* C12 witness: the latest answer held more than MAX_GAMES new titles and
\* MAX_GAMES games were returned.
C12_Witness ==
    /\ recPc = "done"
    /\ lastAnswer.manyNovel
    /\ Len(validGames) = MAX_GAMES

\* C13: the games recommendGames collects have pairwise distinct ids, none
\* of them the id of an installed game.
C13_DistinctAndNotInstalled ==
    /\ \A i, j \in 1..Len(validGames) :
          validGames[i].id = validGames[j].id => i = j
    /\ \A i \in 1..Len(validGames) : validGames[i].id \notin DbIds(gameDB)

\* C13 witness: games are installed, the answer to a later query held
\* titles collected before, and games were returned.
C13_Witness ==
    /\ recPc = "done"
    /\ iterations >= 2
    /\ lastAnswer.repeated
    /\ Len(gameDB) = 2
    /\ Len(validGames) > 2

\* C14: recommendGames, once in its loop, comes to an end when every query
\* is settled: it returns, unless the catalog threw.
C14_Terminates == (recPc = "loop") ~> (recPc = "done" \/ recPc = "rejected")

\* C14 witness: the catalog never gave a new title, the loop went through
\* all MAX_TAGS tags and returned nothing.
C14_Witness ==
    /\ recPc = "done"
    /\ validGames = <<>>
    /\ iterations = MAX_TAGS

\* C15: the loop makes at most MAX_TAGS + 1 = 6 passes, one query each, and
\* starts with at most MAX_TAGS tags.
C15_AtMostSixIterations ==
    /\ iterations <= MAX_TAGS + 1
    /\ (recPc = "loop" /\ iterations = 0 => Len(tags) <= MAX_TAGS)

\* C15 witness: the loop started with MAX_TAGS tags and made MAX_TAGS passes
\* while games were collected.
C15_Witness ==
    /\ recPc = "convert"
    /\ iterations = MAX_TAGS
    /\ validGames # <<>>
    /\ Len(validGames) < MAX_GAMES

\* A pass through the do-while loop.
LoopPass == recPc = "loop" /\ recPc' \in {"loop", "convert"}

\* C16 as stated: every pass through the loop, the first included, drops
\* exactly one tag, the last.
C16_ShrinksOnEveryIteration ==
    [][LoopPass =>
          /\ Len(tags') = Len(tags) - 1
          /\ tags' = SubSeq(tags, 1, Len(tags) - 1)]_vars

\* C16 amended: every pass that starts with a tag drops exactly one tag, the
\* last, so the tags of each query are the tags of the query before without
\* the last; a pass that starts without tags leaves them empty and is the
\* last pass.
C16_ShrinksWhileNonEmpty ==
    [][LoopPass =>
          /\ lastTags' = tags
          /\ (iterations > 0 => tags = SubSeq(lastTags, 1, Len(lastTags) - 1))
          /\ IF Len(tags) > 0
             THEN /\ Len(tags') = Len(tags) - 1
                  /\ tags' = SubSeq(tags, 1, Len(tags) - 1)
             ELSE /\ tags' = <<>>
                  /\ recPc' = "convert"]_vars

\* C16 witness: the second query was for four tags, the five tags of the
\* first query without the last.
C16_Witness ==
    /\ recPc = "loop"
    /\ iterations = 2
    /\ Len(lastTags) = MAX_TAGS - 1
    /\ Len(tags) = MAX_TAGS - 2

\* The tags of the thread top-5 that are not in the installed top-5.
ThreadOnlyTags ==
    DistinctValues(GetMostFrequentsThreadTags(MAX_TAGS))
    \ DistinctValues(GetMostFrequentsInstalledTags(MAX_TAGS))

\* C19: the working tags are at most MAX_TAGS, and when the thread top-5
\* holds a tag that the installed top-5 lacks, such a tag is among the
\* working tags, however many tags the installed games carry.
C19_ThreadTagsSurface ==
    (recPc = "loop" /\ iterations = 0) =>
       /\ Len(tags) <= MAX_TAGS
       /\ (ThreadOnlyTags # {} => DistinctValues(tags) \cap ThreadOnlyTags # {})

\* C20: normalize is idempotent: what removeSpecials returns, handed to
\* removeSpecials again with the same allowed characters, comes back as it is.
C20_NormalizeIdempotent ==
    callPc = "returned" =>
       RemoveSpecials(callReturned, callArgs.allowedChars) = callReturned

\* The characters of str at the positions of keep, in the order of str.
CharsAt(str, keep) ==
    LET Taken[i \in 0..Len(str)] ==
            IF i = 0 THEN <<>>
            ELSE IF i \in keep THEN Append(Taken[i - 1], str[i]) ELSE Taken[i - 1]
    IN  Taken[Len(str)]

\* t is s without its leading and trailing whitespace.
IsTrimOf(t, s) ==
    /\ Len(t) > 0 => ~IsWhitespace(t[1]) /\ ~IsWhitespace(t[Len(t)])
    /\ \E a \in 0..Len(s) :
          /\ a + Len(t) <= Len(s)
          /\ t = SubSeq(s, a + 1, a + Len(t))
          /\ \A i \in 1..Len(s) : (i <= a \/ i > a + Len(t)) => IsWhitespace(s[i])

\* c is a letter with two cases.
IsCasedLetter(c) == c = Eszett \/ ToLowerChar(c) # ToUpperChar(c)

HasEszett(str) == \E i \in 1..Len(str) : str[i] = Eszett

\* C21, as stated: removeSpecials keeps a character exactly when it is no
\* cased letter or it is in the list of allowed characters, drops every other
\* character, and trims the result.
C21_KeepsUncasedDropsLetters ==
    callPc = "returned" =>
       LET str == callArgs.str
           keep == {i \in 1..Len(str) :
                       ~IsCasedLetter(str[i]) \/ str[i] \in callArgs.allowedChars}
       IN  IsTrimOf(callReturned, CharsAt(str, keep))

\* C21, amended: removeSpecials keeps the character at a position exactly
\* when the lower-case and the upper-case form of the string differ at that
\* position, or the character is whitespace, or it is in the list of allowed
\* characters; it drops every other character and trims the result.  In a
\* string whose case conversions keep its length the kept characters are the
\* cased letters, the whitespace and the allowed characters.
C21_KeepsLettersWhitespaceAllowed ==
    callPc = "returned" =>
       LET str == callArgs.str
           lower == ToLowerCase(str)
           upper == ToUpperCase(str)
           keep == {i \in 1..Len(str) :
                       \/ lower[i] # upper[i]
                       \/ IsWhitespace(lower[i])
                       \/ lower[i] \in callArgs.allowedChars}
       IN  /\ IsTrimOf(callReturned, CharsAt(str, keep))
           /\ ~HasEszett(str) =>
                 keep = {i \in 1..Len(str) :
                            \/ IsCasedLetter(str[i])
                            \/ IsWhitespace(str[i])
                            \/ str[i] \in callArgs.allowedChars}

\* A blank is trimmed, a letter and an allowed character are kept and a
\* special character is dropped.
C21_Witness ==
    /\ callPc = "returned"
    /\ callArgs.str = <<" ", "a", "!", ".">>
    /\ callArgs.allowedChars = VersionChars
    /\ callReturned = <<"a", ".">>

\* str without its bracketed groups, read from the left: a "[" that a "]"
\* follows opens a group, which the first "]" after it closes.
RECURSIVE OutsideGroups(_, _)
OutsideGroups(str, i) ==
    IF i > Len(str) THEN <<>>
    ELSE IF str[i] = "[" /\ \E j \in (i + 1)..Len(str) : str[j] = "]"
    THEN OutsideGroups(str, 1 + CHOOSE j \in (i + 1)..Len(str) :
                                   /\ str[j] = "]"
                                   /\ \A k \in (i + 1)..(j - 1) : str[k] # "]")
    ELSE <<str[i]>> \o OutsideGroups(str, i + 1)

Letters(str) == SelectSeq(str, IsCasedLetter)

HasGroup(str) == \E i, j \in 1..Len(str) : i < j /\ str[i] = "[" /\ str[j] = "]"

\* C22: what cleanGameName returns holds no complete bracketed group, no
\* reserved character and no leading or trailing whitespace; its letters are
\* the letters of the name outside the bracketed groups; and
\* cleanGameName("Some Game [MOD][v.1.0]") is "Some Game".
C22_CleanGameName ==
    callPc = "returned" =>
       /\ ~HasGroup(callReturned)
       /\ \A i \in 1..Len(callReturned) : callReturned[i] \notin ReservedChars
       /\ IsTrimOf(callReturned, callReturned)
       /\ Letters(callReturned) = Letters(OutsideGroups(callArgs.name, 1))
       /\ callArgs.name = SomeGameModV10 =>
             callReturned = <<"S", "o", "m", "e", " ", "G", "a", "m", "e">>

\* The positions of name, counted from 0, where "[V." starts in either case.
PrefixStarts(name) ==
    {i \in 0..(Len(name) - 3) :
        name[i + 1] = "[" /\ name[i + 2] \in {"v", "V"} /\ name[i + 3] = "."}

\* C23: getGameVersionFromName returns "Unknown" exactly when the name holds
\* no "[V." in any case; when it holds one, it returns what stands between
\* the first one and the next "]" after it, in the case of the name:
\* "MyGame [v.1.2.3.4]" gives "1.2.3.4" and "MyGame" gives "Unknown".
C23_VersionBetweenPrefixAndBracket ==
    callPc = "returned" =>
       LET name == callArgs.name
           starts == PrefixStarts(name)
       IN  /\ callReturned = Unknown <=> starts = {}
           /\ starts # {} =>
                 LET from == 3 + CHOOSE i \in starts : \A k \in starts : i <= k
                     closes == {j \in (from + 1)..Len(name) : name[j] = "]"}
                 IN  closes # {} =>
                        callReturned =
                           SubSeq(name, from + 1,
                                  (CHOOSE j \in closes : \A k \in closes : j <= k) - 1)
           /\ name = MyGameV1234 => callReturned = <<"1", ".", "2", ".", "3", ".", "4">>
           /\ name = MyGame => callReturned = Unknown

\* The positions of the dots of url that a digit follows.
DottedDigits(url) == {i \in 1..(Len(url) - 1) : url[i] = "." /\ IsDigit(url[i + 1])}

RECURSIVE PowerOfTen(_)
PowerOfTen(k) == IF k = 0 THEN 1 ELSE 10 * PowerOfTen(k - 1)

\* The number the decimal digits of url from position lo to position hi write.
RECURSIVE DecimalValue(_, _, _)
DecimalValue(url, lo, hi) ==
    IF lo > hi THEN 0
    ELSE DigitVal(url[lo]) * PowerOfTen(hi - lo) + DecimalValue(url, lo + 1, hi)

\* C24: the thread id of a URL is the number written by the digits that
\* follow the first dot with a digit after it, also when the URL holds
\* several such groups, and there is no match exactly when the URL holds no
\* dot with a digit after it.
C24_FirstDottedDigits ==
    callPc = "returned" =>
       LET url == callArgs.url
           dots == DottedDigits(url)
       IN  /\ callReturned = <<>> <=> dots = {}
           /\ dots # {} =>
                 LET dot == CHOOSE i \in dots : \A k \in dots : i <= k
                     last == CHOOSE j \in (dot + 1)..Len(url) :
                                /\ \A k \in (dot + 1)..j : IsDigit(url[k])
                                /\ j < Len(url) => ~IsDigit(url[j + 1])
                 IN  callReturned = <<DecimalValue(url, dot + 1, last)>>
           /\ url = CoolGameUrl => callReturned = <<12345>>

\* A URL with two groups of dotted digits gives the number of the first.
C24_Witness ==
    /\ callPc = "returned"
    /\ callArgs.url = <<".", "1", "0", ".", "2">>
    /\ callReturned = <<10>>

\* The key of a name: cleanGameName of it, without reserved characters, in
\* upper case.
DedupKey(name) ==
    ToUpperCase(SelectSeq(CleanGameName(name), LAMBDA c : c \notin ReservedChars))

InstalledKeys == {DedupKey(gameDB[k].name) : k \in 1..Len(gameDB)}

\* C25: getUnlistedGamesInArrayOfPath returns, in the order of its argument,
\* exactly the paths whose key is the key of no installed game.
C25_ReturnsPathsOfNoInstalledKey ==
    callPc = "returned" =>
       LET paths == callArgs.paths
       IN  callReturned.gameFolderPaths =
              CharsAt(paths, {i \in 1..Len(paths) :
                                 DedupKey(GetDirName(paths[i])) \notin InstalledKeys})

\* Of three paths the middle one, the directory "g [v.1]" of the installed
\* game "G", is left out.
C25_Witness ==
    /\ callPc = "returned"
    /\ Len(gameDB) = 1
    /\ gameDB[1].name = NameG
    /\ callArgs.paths = <<DirV, DirGv, DirH>>
    /\ callReturned.gameFolderPaths = <<DirV, DirH>>

\* The one installed game has the name the one directory starts with, and
\* a bracketed group, after a blank or not, is the rest of the directory name.
IsTaggedDirOfInstalled ==
    /\ callPc = "returned"
    /\ Len(gameDB) = 1
    /\ Len(callArgs.paths) = 1
    /\ \E sep \in TagSeparators, tag \in TagGroups :
          GetDirName(callArgs.paths[1]) = gameDB[1].name \o sep \o tag

WithoutReserved(name) == SelectSeq(name, LAMBDA c : c \notin ReservedChars)

\* C26: the key of a name is the key of the name followed by a bracketed
\* group and the key of the name without its reserved characters, so a
\* directory named as an installed game with a bracketed group after the
\* name is left out by getUnlistedGamesInArrayOfPath.
C26_KeyIgnoresTagsAndReserved ==
    IsTaggedDirOfInstalled =>
       /\ DedupKey(GetDirName(callArgs.paths[1])) = DedupKey(gameDB[1].name)
       /\ DedupKey(WithoutReserved(gameDB[1].name)) = DedupKey(gameDB[1].name)
       /\ callReturned.gameFolderPaths = <<>>

\* getGameFromPaths has dealt with one more path.
GetGameFromPathStep ==
    /\ addPc = "adding"
    /\ Len(gameFolderPaths) > 0
    /\ Len(addLog') = Len(addLog) + 1

\* ... and this is what it did with it.
LatestOutcome == addLog'[Len(addLog')]

PathsOf(log) == [i \in 1..Len(log) |-> log[i].path]

Threw(op) == op \in {"search threw", "insert threw"}

\* C27: what getGameFromPath throws for a path is caught and reported for
\* that path, and the paths after it are still processed: every step of the
\* batch deals with the first path left and leaves the others, and the batch
\* ends only when no path is left.
C27_FailureCaughtAndBatchGoesOn ==
    [][/\ (addPc = "adding" /\ <<addPc, gameFolderPaths, addLog>>' # <<addPc, gameFolderPaths, addLog>>) =>
            \/ /\ GetGameFromPathStep
               /\ addPc' = "adding"
               /\ PathsOf(addLog') \o gameFolderPaths' = PathsOf(addLog) \o gameFolderPaths
               /\ Threw(LatestOutcome.op) =>
                     /\ LatestOutcome.path = gameFolderPaths[1]
                     /\ LatestOutcome.notice = "error messagebox"
            \/ /\ addPc' = "idle"
               /\ gameFolderPaths = <<>>]_vars

\* A path is processed and its game added after getGameFromPath threw for
\* the path before it.
C27_Witness ==
    /\ addPc = "adding"
    /\ Len(addLog) = 2
    /\ Threw(addLog[1].op)
    /\ addLog[2].op = "added"
    /\ addLog[2].path # addLog[1].path

\* C28: when the catalog returns no title for a path, nothing is inserted
\* into GameDB for it, the user is told by a warning and nothing is thrown:
\* the batch goes on.
C28_NoTitleInsertsNothing ==
    [][(/\ GetGameFromPathStep
        /\ Len(Gamelist(gameFolderPaths[1])) = 0
        /\ LatestOutcome.op # "search threw") =>
           /\ LatestOutcome.op = "none found"
           /\ LatestOutcome.path = gameFolderPaths[1]
           /\ LatestOutcome.notice = "warning toast"
           /\ gameDB' = gameDB
           /\ addPc' = "adding"]_vars

\* The catalog knew the first directory and not the second.
C28_Witness ==
    /\ addPc = "adding"
    /\ Len(addLog) = 2
    /\ addLog[1].op = "added"
    /\ addLog[2].op = "none found"
    /\ Len(Gamelist(addLog[2].path)) = 0
    /\ Len(gameDB) = 1

\* C29: when the catalog returns several titles for a path, nothing is
\* inserted into GameDB if the user selects none, and the title the user
\* selects, and no other, is inserted if the user selects one.
C29_SelectionDecidesInsert ==
    [][(GetGameFromPathStep /\ Len(Gamelist(gameFolderPaths[1])) > 1) =>
           /\ LatestOutcome.op = "not selected" => gameDB' = gameDB
           /\ LatestOutcome.op = "added" =>
                 /\ Len(gameDB') = Len(gameDB) + 1
                 /\ SubSeq(gameDB', 1, Len(gameDB)) = gameDB
                 /\ gameDB'[Len(gameDB')].id = LatestOutcome.id
                 /\ gameDB'[Len(gameDB')].gameDirectory = gameFolderPaths[1]
                 /\ \E k \in 1..Len(Gamelist(gameFolderPaths[1])) :
                       /\ Gamelist(gameFolderPaths[1])[k].id = LatestOutcome.id
                       /\ Gamelist(gameFolderPaths[1])[k].name = gameDB'[Len(gameDB')].name
           /\ gameDB' # gameDB => LatestOutcome.op = "added"]_vars

\* The user selected the second of two titles and it is the one in GameDB.
C29_Witness ==
    /\ addPc = "adding"
    /\ Len(addLog) = 1
    /\ addLog[1].op = "added"
    /\ Len(Gamelist(addLog[1].path)) = 2
    /\ addLog[1].id = Gamelist(addLog[1].path)[2].id
    /\ Len(gameDB) > 0
    /\ gameDB[Len(gameDB)].id = addLog[1].id

\* syncDatabaseWatchedThreads stands at one of its awaits: of the search in
\* ThreadDB for a URL, of the catalog, or of the insert or write.
SyncInProgress ==
    \/ pc \in {"searched", "fetched"}
    \/ pc = "loop" /\ idx <= Len(urlList) /\ MatchThreadId(urlList[idx]) # <<>>

\* C30: the sync and recommendGames are awaited one after the other:
\* recommendGames never reads ThreadDB while syncDatabaseWatchedThreads is
\* still in progress.
C30_RecommendReadsAfterSync ==
    [][(recPc = "idle" /\ recPc' = "loop") => ~SyncInProgress]_vars

\* The second run stands between two of its awaits.
OtherInProgress ==
    \/ otherRun.pc \in {"searched", "fetched"}
    \/ otherRun.pc = "loop" /\ otherRun.idx <= Len(otherRun.urlList)

\* C31: at most one run of syncDatabaseWatchedThreads is in progress at any
\* moment, whatever the login events, and ThreadDB never holds a thread id
\* twice.
C31_SingleSyncWriter ==
    /\ ~(SyncInProgress /\ OtherInProgress)
    /\ UniqueIds(threadDB)

\* C32: after a pass recommendGames queries the catalog again exactly when
\* it holds fewer than MAX_GAMES games and a tag is left: it is in its loop
\* after a pass only then, and it has left the loop only otherwise, so with
\* MAX_GAMES games held it queries no more, tags or no tags.
C32_QueriesAgainExactlyWhen ==
    /\ (recPc = "loop" /\ iterations > 0) =>
          (Len(validGames) < MAX_GAMES /\ Len(tags) > 0)
    /\ recPc \in {"convert", "done"} =>
          (Len(validGames) >= MAX_GAMES \/ Len(tags) = 0)

\* C32 witness: the loop was left with MAX_GAMES games and tags to spare.
C32_Witness ==
    /\ recPc = "convert"
    /\ Len(validGames) = MAX_GAMES
    /\ Len(tags) > 0

\* The working tags recommendGames starts with; the stores do not change
\* while it runs.
StartTags ==
    UnifiedTags(GetMostFrequentsInstalledTags(MAX_TAGS),
                GetMostFrequentsThreadTags(MAX_TAGS))

C38_WitnessTags ==
    /\ recPc = "done"
    /\ Len(StartTags) = MAX_TAGS
    /\ iterations = MAX_TAGS
    /\ Len(lastTags) = 1

\* The ids that getUpdatedThreads would return for the two stores.
PendingIds(threads, games) == DbIds(GetUpdatedThreadsResult(threads, games))

\* The record of id in db is marked as read.
MarkedRead(db, id) == \E i \in 1..Len(db) : db[i].id = id /\ db[i].markedAsRead

\* C39: a step of the sync never clears updateAvailable and never sets
\* markedAsRead, so a thread that is pending stays pending through it; a
\* pending thread leaves the result of getUpdatedThreads only by a step that
\* marks it as read or that installs a game of its id.
C39_PendingUntilReadOrInstalled ==
    [][/\ syncVars' # syncVars =>
             /\ PendingIds(threadDB, gameDB) \subseteq PendingIds(threadDB', gameDB')
             /\ \A id \in DbIds(threadDB) :
                   /\ FlaggedUpdated(threadDB, id) => FlaggedUpdated(threadDB', id)
                   /\ MarkedRead(threadDB', id) => MarkedRead(threadDB, id)
       /\ \A id \in PendingIds(threadDB, gameDB) \ PendingIds(threadDB', gameDB') :
             \/ MarkedRead(threadDB', id) /\ syncVars' = syncVars
             \/ id \in DbIds(gameDB') \ DbIds(gameDB)]_vars

\* C39 witness: a thread that was pending when the run started was in the
\* watch-list under the url stored for it, the run has returned and the
\* thread is pending still.
C39_Witness ==
    /\ pc = "synced"
    /\ \E i \in 1..Len(urlList) :
          /\ MatchThreadId(urlList[i]) # <<>>
          /\ LET id == ThreadIdOfMatch(MatchThreadId(urlList[i]))
             IN  /\ id \in PendingIds(store0, gameDB)
                 /\ id \in PendingIds(threadDB, gameDB)
                 /\ DbSearchById(store0, id)[1].url = urlList[i]
                 /\ DbSearchById(threadDB, id)[1].url = urlList[i]

\* The paths of the call that were not returned, in their order.
ExcludedPaths ==
    SelectSeq(callArgs.paths,
              LAMBDA path : \A i \in 1..Len(callReturned.gameFolderPaths) :
                               callReturned.gameFolderPaths[i] # path)

\* C33: with at most 5 paths excluded getUnlistedGamesInArrayOfPath sends
\* one warning per excluded path, with its name, in the order of the paths;
\* with more it sends one warning with their number; and it returns the
\* paths of no listed game whatever it sends.
C33_NoticePerPathOrOneCount ==
    callPc = "returned" =>
       LET n == Len(ExcludedPaths)
           toasts == callReturned.toasts
       IN  /\ n <= 5 =>
                 /\ Len(toasts) = n
                 /\ \A i \in 1..n :
                       /\ toasts[i].key = "MR game already listed"
                       /\ toasts[i].gamename =
                             Trim(ReplaceReserved(
                                CleanGameName(GetDirName(ExcludedPaths[i])), <<" ">>))
           /\ n > 5 =>
                 /\ Len(toasts) = 1
                 /\ toasts[1].key = "MR multiple duplicate games"
                 /\ toasts[1].number = n
           /\ callReturned.gameFolderPaths =
                 SelectSeq(callArgs.paths, LAMBDA path : ~IsListed(gameDB, path))

\* C33 witness: six of seven paths were excluded, one warning told their
\* number and the seventh path was returned.
C33_Witness ==
    /\ callPc = "returned"
    /\ Len(callArgs.paths) = 7
    /\ Len(ExcludedPaths) = 6
    /\ Len(callReturned.toasts) = 1
    /\ callReturned.gameFolderPaths = <<DirV>>

\* C34: onAddRemoteGame, the title of the URL fetched: when GameDB holds no
\* record of its id the converted record is inserted, with the selected
\* directory and the version of the name of the directory; when it holds
\* one nothing is inserted.
C34_InsertsUnlessListed ==
    [][(addPc = "fetched" /\ addPc' = "idle") =>
          LET info == GetGameDataFromURL(urlInput)
              gamePath == gameFolderPaths[1]
          IN  IF DbSearchById(gameDB, info.id) = <<>>
              THEN gameDB' =
                      Append(gameDB,
                             [GameInfoExtendedConvert(info) EXCEPT
                                 !.version = GetGameVersionFromName(GetDirName(gamePath)),
                                 !.gameDirectory = gamePath])
              ELSE gameDB' = gameDB]_vars

\* The second run has started, and what it did so far.
SecondRun == \E i \in 1..Len(syncLog) : syncLog[i] = Again
SecondLog ==
    LET k == CHOOSE i \in 1..Len(syncLog) : syncLog[i] = Again
    IN  [i \in 1..(Len(syncLog) - k) |-> syncLog[k + i]]
FirstLog ==
    LET k == CHOOSE i \in 1..Len(syncLog) : syncLog[i] = Again
    IN  [i \in 1..(k - 1) |-> syncLog[i]]

\* The second run has inserted, written and fetched nothing, and ThreadStore
\* is as the first run left it.
SecondRunIdle ==
    /\ \A i \in 1..Len(SecondLog) : SecondLog[i].op \in {"warn", "search"}
    /\ pc \notin {"fetched", "rejected"}
    /\ threadDB = store0

OneUrlPerThread(urls) ==
    \A i, j \in 1..Len(urls) :
       (/\ MatchThreadId(urls[i]) # <<>>
        /\ MatchThreadId(urls[j]) # <<>>
        /\ ThreadIdOfMatch(MatchThreadId(urls[i])) = ThreadIdOfMatch(MatchThreadId(urls[j])))
       => urls[i] = urls[j]

C35_ClickReachesMain ==
    box # <<>> /\ box.stage = "prepared" =>
       /\ Len(box.sent) = Len(box.clicks)
       /\ \A i \in 1..Len(box.sent) :
             /\ Len(box.sent[i].data) = 1
             /\ box.sent[i].data[1].button = box.clicks[i].button
             /\ {box.sent[i].data[1].checkboxes[k] :
                    k \in 1..Len(box.sent[i].data[1].checkboxes)} = box.clicks[i].checked

\* C36: once the main process has delivered the arguments of the window,
\* prepare has run with them, and it never runs twice.
C36_PreparedOnceOnArguments ==
    box # <<>> /\ box.stage \in {"created", "loaded"} =>
       /\ Len(box.prepared) <= 1
       /\ box.delivered > 0 => box.prepared = <<box.args>>

\* The positions of the log of gameCardDelete with the given operation.
CardOps(op) == {i \in 1..Len(card.log) : card.log[i].op = op}

\* The game of the card has its record in GameDB.
CardDataPresent == \E i \in 1..Len(gameDB) : gameDB[i].id = card.id

\* C40: gameCardDelete copies, deletes and removes nothing when the dialog
\* is dismissed or answered with "cancel"; it deletes the folder of the game
\* only for "delete", and then before it removes the data; it removes the
\* data, when it comes to its end, for "remove-only" and for "delete" and
\* only for them; and when the saves are to be kept, every save path was
\* copied, once, before the folder is deleted and before the data is removed.
C40_DeleteFollowsTheDialog ==
    card # <<>> =>
       /\ card.button \in {"", "cancel"} => (card.log = <<>> /\ CardDataPresent)
       /\ CardOps("deleteFolder") # {} =>
             /\ card.button = "delete"
             /\ card.log[CHOOSE i \in CardOps("deleteFolder") : TRUE].path = card.gameDirectory
       /\ card.button = "delete" /\ CardOps("deleteData") # {} =>
             \E f \in CardOps("deleteFolder") : \A d \in CardOps("deleteData") : f < d
       /\ ~CardDataPresent <=> CardOps("deleteData") # {}
       /\ CardOps("deleteData") # {} => card.button \in {"remove-only", "delete"}
       /\ (card.pc = "done" /\ card.button \in {"remove-only", "delete"}) => ~CardDataPresent
       /\ ("preserve-savegame" \in card.checkboxes
           /\ CardOps("deleteFolder") \cup CardOps("deleteData") # {}) =>
             \A k \in 1..Len(card.savePaths) :
                \E c \in CardOps("copy") :
                   /\ card.log[c].path = card.savePaths[k]
                   /\ \A x \in CardOps("deleteFolder") \cup CardOps("deleteData") : c < x
       /\ "preserve-savegame" \notin card.checkboxes => CardOps("copy") = {}

\* C40 witness: the user chose "delete" and to keep the saves: two saves
\* were copied, then the folder was deleted, then the data removed.
C40_Witness ==
    /\ card # <<>>
    /\ card.pc = "done"
    /\ card.button = "delete"
    /\ Len(card.savePaths) = 2
    /\ Len(card.log) = 5
    /\ card.log[3].op = "copy"
    /\ card.log[4].op = "deleteFolder"
    /\ card.log[5].op = "deleteData"
    /\ ~CardDataPresent

====
